---- MODULE Spec2Model ----
(***************************************************************************)
(* Model of the AIVI assistant's knowledge retrieval core                   *)
(* (ai_assistant/offline_manager.py, google_search_manager.py, main.py),    *)
(* its intent classifier (offline_conversation.py) and the voice-driven     *)
(* learning navigator (vi_learning_system.py, enhanced_voice_manager.py).   *)
(*                                                                          *)
(* Text is modelled as a sequence of one-character strings, so that         *)
(* str.lower, str.strip, str.split, the `in` substring test and             *)
(* re.findall(r'\d+') are computed as Python computes them.                 *)
(* None is the empty tuple and a present value x is the 1-tuple <<x>>.      *)
(* Floating point scores are modelled as exact scaled integers.             *)
(***************************************************************************)
EXTENDS Integers, Sequences, FiniteSets, TLC

VARIABLES
    \* ---- OfflineDataManager (offline_manager.py)
    csv_rows,            \* aivi_knowledge_base.csv: rows in file order
    db_rows,             \* sqlite knowledge_base: access_count by AUTOINCREMENT id
    cache_rows,          \* search_cache.csv: rows in file order
    clock,               \* time.time()*1000 / datetime.now(), strictly increasing
    lock_owner,          \* the call holding OfflineDataManager._lock, or None
    pc,                  \* where the thread is: "idle" between commands, or
                         \* "add_entry" at add_knowledge_entry's `with self._lock`
    add_call,            \* the add_knowledge_entry call waiting there
    put_args,            \* arguments of the last cache_online_search call
    put_ret,             \* its return value: None until it returns
    \* ---- one search request (smart_search / search_google / search_enhanced)
    search_mode,         \* ModernAIVIGUI.search_mode
    req,                 \* the last request and what it returned
    \* ---- VILearningSystem (vi_learning_system.py)
    menu_level, current_subject, current_topic,
    available_subjects, available_topics,
    nav_result,          \* what the last navigation command returned
    \* ---- OfflineConversationAI (offline_conversation.py)
    utterance, intent, handler,
    conversation_history,   \* the turns: user, context, ai_response
    user_context,           \* name, current_topic, questions_asked, ...
    chat_response,          \* what the last process_conversation returned
    \* ---- ModernAIVIGUI's mode (main.py) and assistant_mode.flag
    is_offline_mode, assistant_mode, command_response,
    \* ---- threads inside the cache methods of OfflineDataManager
    threads,             \* where each thread is and the rows it has read
    calls,               \* the cache calls that have returned
    \* ---- OfflineDataManager._calculate_relevance on its own
    rank_query, rank_row, rank_out

vars == <<csv_rows, db_rows, cache_rows, clock, lock_owner, pc, add_call, put_args,
          put_ret,
          search_mode, req,
          menu_level, current_subject, current_topic, available_subjects,
          available_topics, nav_result,
          utterance, intent, handler, conversation_history, user_context, chat_response,
          is_offline_mode, assistant_mode, command_response,
          threads, calls,
          rank_query, rank_row, rank_out>>

storeVars == <<csv_rows, db_rows, cache_rows, clock, lock_owner, pc, add_call, put_args,
               put_ret>>
reqVars == <<search_mode, req>>
navVars == <<menu_level, current_subject, current_topic, available_subjects,
             available_topics, nav_result>>
talkVars == <<conversation_history, user_context, chat_response>>
modeVars == <<is_offline_mode, assistant_mode, command_response>>
raceVars == <<threads, calls>>
intentVars == <<utterance, intent, handler, talkVars, modeVars, raceVars>>
rankVars == <<rank_query, rank_row, rank_out>>

None == << >>
Some(x) == <<x>>

\* Op(v), with v evaluated once
Bind(v, Op(_)) == CHOOSE r \in {Op(y) : y \in {v}} : TRUE

(***************************************************************************)
(* Python text operations                                                   *)
(***************************************************************************)
UpperChars ==
    <<"A","B","C","D","E","F","G","H","I","J","K","L","M",
      "N","O","P","Q","R","S","T","U","V","W","X","Y","Z">>
LowerChars ==
    <<"a","b","c","d","e","f","g","h","i","j","k","l","m",
      "n","o","p","q","r","s","t","u","v","w","x","y","z">>
DigitChars == <<"0","1","2","3","4","5","6","7","8","9">>

IndexIn(c, chars) == CHOOSE i \in DOMAIN chars : chars[i] = c
UpperSet == {UpperChars[i] : i \in DOMAIN UpperChars}
LowerSet == {LowerChars[i] : i \in DOMAIN LowerChars}
DigitSet == {DigitChars[i] : i \in DOMAIN DigitChars}
IsUpper(c) == c \in UpperSet
IsLower(c) == c \in LowerSet
IsDigit(c) == c \in DigitSet
IsSpace(c) == c \in {" ", "\t", "\n"}

LowerOf == [c \in UpperSet |-> LowerChars[IndexIn(c, UpperChars)]]
UpperOf == [c \in LowerSet |-> UpperChars[IndexIn(c, LowerChars)]]
LowerChar(c) == IF IsUpper(c) THEN LowerOf[c] ELSE c
UpperChar(c) == IF IsLower(c) THEN UpperOf[c] ELSE c

\* str.lower()
Lower(s) == [i \in 1..Len(s) |-> LowerChar(s[i])]

\* str.title(): a cased character is upper-cased after an uncased one (or at
\* the start) and lower-cased after a cased one.
Title(s) ==
    [i \in 1..Len(s) |->
        IF i > 1 /\ (IsUpper(s[i-1]) \/ IsLower(s[i-1]))
        THEN LowerChar(s[i]) ELSE UpperChar(s[i])]

\* a in b, for two strings
IsSubstr(a, b) ==
    \E x \in {a}, y \in {b} :
        \E i \in 0..(Len(y) - Len(x)) : SubSeq(y, i + 1, i + Len(x)) = x

\* str.strip()
Strip(s) ==
    LET keep == {i \in 1..Len(s) : ~IsSpace(s[i])}
    IN  IF keep = {} THEN << >>
        ELSE SubSeq(s, CHOOSE i \in keep : \A j \in keep : i <= j,
                       CHOOSE i \in keep : \A j \in keep : j <= i)

\* str.split(): the maximal runs of non-whitespace, in order
RECURSIVE SplitWs(_)
SplitWs(s) ==
    LET keep == {i \in 1..Len(s) : ~IsSpace(s[i])}
    IN  IF keep = {} THEN << >>
        ELSE LET b == CHOOSE i \in keep : \A j \in keep : i <= j
                 stops == {i \in b..Len(s) : IsSpace(s[i])}
                 e == IF stops = {} THEN Len(s) + 1
                      ELSE CHOOSE i \in stops : \A j \in stops : i <= j
             IN  <<SubSeq(s, b, e - 1)>> \o SplitWs(SubSeq(s, e, Len(s)))

\* str.split(','): the pieces between the separators, empty pieces included;
\* ''.split(',') is ['']
RECURSIVE SplitOn(_, _)
SplitOn(s, sep) ==
    LET at == {i \in 1..Len(s) : s[i] = sep}
    IN  IF at = {} THEN <<s>>
        ELSE LET e == CHOOSE i \in at : \A j \in at : i <= j
             IN  <<SubSeq(s, 1, e - 1)>> \o SplitOn(SubSeq(s, e + 1, Len(s)), sep)

\* sep.join(parts)
RECURSIVE Join(_, _)
Join(parts, sep) ==
    IF Len(parts) = 0 THEN << >>
    ELSE IF Len(parts) = 1 THEN parts[1]
    ELSE parts[1] \o <<sep>> \o Join(Tail(parts), sep)

ToSet(seq) == {seq[i] : i \in DOMAIN seq}

\* int(digits) for a run of decimal digits
RECURSIVE ToInt(_)
ToInt(ds) ==
    IF Len(ds) = 0 THEN 0
    ELSE 10 * ToInt(SubSeq(ds, 1, Len(ds) - 1)) + (IndexIn(ds[Len(ds)], DigitChars) - 1)

\* re.findall(r'\d+', s): None when there is no digit, else the first maximal
\* run of digits
FirstNumber(s) ==
    LET ds == {i \in 1..Len(s) : IsDigit(s[i])}
    IN  IF ds = {} THEN None
        ELSE LET b == CHOOSE i \in ds : \A j \in ds : i <= j
                 stops == {i \in b..Len(s) : ~IsDigit(s[i])}
                 e == IF stops = {} THEN Len(s) + 1
                      ELSE CHOOSE i \in stops : \A j \in stops : i <= j
             IN  Some(SubSeq(s, b, e - 1))

\* str(k) for an integer k of at most two digits
Str(k) ==
    LET a == IF k < 0 THEN 0 - k ELSE k
        digits == IF a < 10 THEN <<DigitChars[a + 1]>>
                  ELSE <<DigitChars[(a \div 10) + 1], DigitChars[(a % 10) + 1]>>
    IN  IF k < 0 THEN <<"-">> \o digits ELSE digits

\* Code point order of the characters the model uses (ASCII), for sorted()
AsciiOrder ==
    <<"\t", "\n", " ", "'", ",", "-", ".">> \o DigitChars \o <<"?">> \o UpperChars
      \o <<"_">> \o LowerChars
CharCode(c) == IndexIn(c, AsciiOrder)

RECURSIVE StrLess(_, _)
StrLess(a, b) ==
    IF Len(b) = 0 THEN FALSE
    ELSE IF Len(a) = 0 THEN TRUE
    ELSE IF a[1] = b[1] THEN StrLess(Tail(a), Tail(b))
    ELSE CharCode(a[1]) < CharCode(b[1])

\* sorted(list(set_of_strings))
RECURSIVE SortedStrings(_)
SortedStrings(S) ==
    IF S = {} THEN << >>
    ELSE LET m == CHOOSE x \in S : \A y \in S \ {x} : StrLess(x, y)
         IN  <<m>> \o SortedStrings(S \ {m})

(***************************************************************************)
(* OfflineDataManager: the knowledge base (KnowledgeStore) and its ranking  *)
(***************************************************************************)
\* A row of aivi_knowledge_base.csv.  confidence is in hundredths (0.9 is 90).
KnowledgeRow(id, category, question, answer, keywords, source, confidence) ==
    [id |-> id, category |-> category, question |-> question, answer |-> answer,
     keywords |-> keywords, source |-> source, confidence |-> confidence]

\* The weights of _calculate_relevance, in tenths
QuestionMatchWeight == 10
WordOverlapWeight == 8
KeywordMatchWeight == 6
AnswerMatchWeight == 4

\* keywords = [k.strip().lower() for k in row['keywords'].split(',')]
RowKeywords(row) ==
    LET parts == SplitOn(row.keywords, ",")
    IN  [i \in 1..Len(parts) |-> Lower(Strip(parts[i]))]

\* len(query_words) == 0: the division raises ZeroDivisionError
RelevanceRaises(query) == Len(SplitWs(query)) = 0

\* The number of query words (occurrences, in order) that are keywords of the row:
\* `for word in query_words: if word in keywords: score += 0.6`
KeywordHits(query, row) ==
    LET query_words == SplitWs(query)
    IN  Cardinality({i \in 1..Len(query_words) : query_words[i] \in ToSet(RowKeywords(row))})

\* common_words = set(query_words) & set(question_words)
CommonWords(query, row) ==
    ToSet(SplitWs(query)) \cap ToSet(SplitWs(Lower(row.question)))

\* The score before the confidence factor, times 10 * len(query_words):
\*   1.0 [query in question] + len(common_words) / len(query_words) * 0.8
\*   + 0.6 per keyword hit + 0.4 [query in answer]
PreConfidenceScore(query, row) ==
    LET n == Len(SplitWs(query))
    IN  (IF IsSubstr(query, Lower(row.question)) THEN QuestionMatchWeight * n ELSE 0)
        + WordOverlapWeight * Cardinality(CommonWords(query, row))
        + KeywordMatchWeight * n * KeywordHits(query, row)
        + (IF IsSubstr(query, Lower(row.answer)) THEN AnswerMatchWeight * n ELSE 0)

\* _calculate_relevance(query, row) * 1000 * len(query_words); query is the
\* lower-cased query.  Defined when ~RelevanceRaises(query).
CalculateRelevance(query, row) == PreConfidenceScore(query, row) * row.confidence

\* The row filter of search_offline_data
RowMatchesQuery(query_lower, row) ==
    \/ IsSubstr(query_lower, Lower(row.question))
    \/ IsSubstr(query_lower, Lower(row.answer))
    \/ \E k \in ToSet(RowKeywords(row)) : IsSubstr(k, query_lower)

RowInCategory(category, row) ==
    category = None \/ Lower(row.category) = Lower(category[1])

\* A sort by descending score that puts the later of two equal scores first
SortByScoreLaterFirst(results) ==
    LET Sorted(rs) ==
            LET Before(i, j) ==
                    \/ rs[i].relevance_score > rs[j].relevance_score
                    \/ rs[i].relevance_score = rs[j].relevance_score /\ i > j
                Place(i) == 1 + Cardinality({j \in DOMAIN rs : Before(j, i)})
                F[k \in 0..Len(rs)] ==
                    IF k = 0 THEN << >>
                    ELSE Append(F[k-1], rs[CHOOSE i \in DOMAIN rs : Place(i) = k])
            IN  F[Len(rs)]
    IN  Bind(results, Sorted)

\* results.sort(key=relevance_score, reverse=True): a stable sort, so equal
\* scores keep their file order.  The result at place k is the one with k - 1
\* results before it: those with a higher score, or the same score and an
\* earlier place in the file.
SortByScore(results) ==
    LET Sorted(rs) ==
            LET Before(i, j) ==
                    \/ rs[i].relevance_score > rs[j].relevance_score
                    \/ rs[i].relevance_score = rs[j].relevance_score /\ i < j
                Place(i) == 1 + Cardinality({j \in DOMAIN rs : Before(j, i)})
                F[k \in 0..Len(rs)] ==
                    IF k = 0 THEN << >>
                    ELSE Append(F[k-1], rs[CHOOSE i \in DOMAIN rs : Place(i) = k])
            IN  F[Len(rs)]
    IN  Bind(results, Sorted)

Take(seq, n) == SubSeq(seq, 1, IF Len(seq) < n THEN Len(seq) ELSE n)

TopResults == 10
TopAccessed == 3

\* The elements of rows at the places in keep, in order
SelectRows(rows, keep) ==
    LET F[i \in 0..Len(rows)] ==
            IF i = 0 THEN << >>
            ELSE IF i \in keep THEN Append(F[i-1], rows[i]) ELSE F[i-1]
    IN  F[Len(rows)]

\* The rows search_offline_data scores: those passing both filters, in file order
MatchingRows(rows, query, category) ==
    LET Keep(row) == RowMatchesQuery(Lower(query), row) /\ RowInCategory(category, row)
    IN  SelectRows(rows, {i \in DOMAIN rows : Keep(rows[i])})

\* A search that divides by the number of query words before it reads any row
SearchRaisesBeforeScoring(rows, query, category) == RelevanceRaises(Lower(query))

\* search_offline_data raises inside its try block (and so returns []) exactly
\* when a row is scored and the query has no word
SearchRaises(rows, query, category) ==
    RelevanceRaises(Lower(query)) /\ Len(MatchingRows(rows, query, category)) > 0

\* The result dictionaries of the matching rows m, in file order
ScoredResults(m, query) ==
    LET F[i \in 0..Len(m)] ==
            IF i = 0 THEN << >>
            ELSE Append(F[i-1],
                   [id |-> m[i].id, category |-> m[i].category, question |-> m[i].question,
                    answer |-> m[i].answer, keywords |-> m[i].keywords,
                    source |-> m[i].source, confidence |-> m[i].confidence,
                    relevance_score |-> CalculateRelevance(Lower(query), m[i])])
    IN  F[Len(m)]

\* All results of search_offline_data, sorted, before the [:10] cut
RankedResults(rows, query, category) ==
    LET Ranked(m) ==
            IF Len(m) > 0 /\ RelevanceRaises(Lower(query)) THEN << >>
            ELSE SortByScore(ScoredResults(m, query))
    IN  Bind(MatchingRows(rows, query, category), Ranked)


\* _update_access_count(record_id): UPDATE knowledge_base SET access_count =
\* access_count + 1 WHERE id = ?  -- the sqlite row whose AUTOINCREMENT id equals
\* the csv id, when there is one
UpdateAccessCount(db, record_id) ==
    IF record_id \in DOMAIN db THEN [db EXCEPT ![record_id] = @ + 1] ELSE db

\* The sqlite table after `for result in results[:3]: _update_access_count(...)`,
\* given all sorted results
UpdateAccessCounts(db, ranked) ==
    LET top == Take(ranked, TopAccessed)
        F[i \in 0..Len(top)] ==
            IF i = 0 THEN db ELSE UpdateAccessCount(F[i-1], top[i].id)
    IN  F[Len(top)]

\* search_offline_data(query, category) on the csv rows and the sqlite table db:
\* the list it returns (the first ten results) and the sqlite table it leaves
SearchOfflineData(db, rows, query, category) ==
    LET Outcome(ranked) ==
            [results |-> Take(ranked, TopResults), db |-> UpdateAccessCounts(db, ranked)]
    IN  Bind(RankedResults(rows, query, category), Outcome)

(***************************************************************************)
(* _calculate_relevance applied to bounded inputs (specification RankSpec)  *)
(***************************************************************************)
MaxQueryWords == 3

\* The vocabulary of the ranked queries; "P" exercises the lower-casing
RankWords == {<<"p">>, <<"q">>, <<"w">>, <<"P">>}

\* Every query of at most n words of the vocabulary, separated by one space
RECURSIVE WordQueries(_)
WordQueries(n) ==
    IF n = 0 THEN {<< >>}
    ELSE LET shorter == WordQueries(n - 1)
         IN  shorter \cup RankWords
               \cup {q \o <<" ">> \o w : q \in (shorter \ {<< >>}), w \in RankWords}

ExampleQuery ==
    <<"w","h","a","t"," ","i","s"," ","p","h","o","t","o","s","y","n","t","h","e","s","i","s">>
ExampleQuestion ==
    <<"W","h","a","t"," ","i","s"," ","p","h","o","t","o","s","y","n","t","h","e","s","i","s",
      "?">>
ExampleKeywords ==
    <<"p","h","o","t","o","s","y","n","t","h","e","s","i","s",",","p","l","a","n","t","s">>
ExampleAnswer ==
    <<"P","h","o","t","o","s","y","n","t","h","e","s","i","s"," ","i","s"," ","t","h","e"," ",
      "p","r","o","c","e","s","s">>
ExampleRow ==
    KnowledgeRow(2, <<"a">>, ExampleQuestion, ExampleAnswer, ExampleKeywords, <<"b">>, 95)

RankQueries == WordQueries(MaxQueryWords) \cup {ExampleQuery}

RankRows ==
    {KnowledgeRow(1, <<"a">>, question, answer, keywords, <<"u">>, confidence) :
        question \in {<<"W"," ","p","?">>, <<"w"," ","p">>, <<"q">>, <<"p"," ","p">>},
        answer \in {<<"p"," ","i","s"," ","q">>, <<"x">>},
        keywords \in {<<"p",",","q">>, <<"p">>, << >>, <<"x",","," ","Q">>},
        confidence \in {70, 95}}
      \cup {ExampleRow}

StoreIdle ==
    /\ csv_rows = << >> /\ db_rows = << >> /\ cache_rows = << >> /\ clock = 0
    /\ lock_owner = None /\ pc = "idle" /\ add_call = None
    /\ put_args = None /\ put_ret = None
ReqIdle == search_mode = "offline_first" /\ req = None
NavIdle ==
    /\ menu_level = "main" /\ current_subject = None /\ current_topic = None
    /\ available_subjects = << >> /\ available_topics = << >> /\ nav_result = None
\* user_context of a new OfflineConversationAI (session_start is never read)
NewUserContext ==
    [name |-> None, current_topic |-> None, questions_asked |-> 0,
     topics_discussed |-> << >>, preferences |-> [name \in {} |-> 0]]
TalkIdle == conversation_history = << >> /\ user_context = NewUserContext /\ chat_response = None
ModeIdle == is_offline_mode = FALSE /\ assistant_mode = "offline" /\ command_response = None
\* No thread has called the cache
RaceIdle == threads = << >> /\ calls = [puts |-> 0, hits |-> 0, misses |-> 0, sweeps |-> 0]
IntentIdle ==
    /\ utterance = << >> /\ intent = None /\ handler = None
    /\ TalkIdle /\ ModeIdle /\ RaceIdle
RankIdle == rank_query = << >> /\ rank_row = None /\ rank_out = None

RankInit ==
    /\ StoreIdle /\ ReqIdle /\ NavIdle /\ IntentIdle
    /\ rank_query \in RankQueries
    /\ rank_row \in {Some(r) : r \in RankRows}
    /\ rank_out = None

\* search_offline_data line 132: _calculate_relevance(query_lower, row)
RankApply ==
    /\ rank_out = None
    /\ rank_out' =
         Some(IF RelevanceRaises(Lower(rank_query))
              THEN [raised |-> TRUE, score |-> 0, words |-> 0]
              ELSE [raised |-> FALSE,
                    score |-> CalculateRelevance(Lower(rank_query), rank_row[1]),
                    words |-> Len(SplitWs(Lower(rank_query)))])
    /\ UNCHANGED <<storeVars, reqVars, navVars, intentVars, rank_query, rank_row>>

RankNext == RankApply

RankSpec == RankInit /\ [][RankNext]_vars

(***************************************************************************)
(* C10: the relevance formula                                               *)
(***************************************************************************)
\* The score the formula with de-duplicated query tokens gives, before the
\* confidence factor and times 10 * |distinct query tokens|: 1.0 for the
\* question substring, 0.8 * |tokens in the question| / |tokens|, 0.6 per
\* distinct token that is a keyword, 0.4 for the answer substring.
DistinctTokenScore(query, row) ==
    LET tokens == ToSet(SplitWs(query))
        n == Cardinality(tokens)
    IN  (IF IsSubstr(query, Lower(row.question)) THEN 10 * n ELSE 0)
        + 8 * Cardinality(tokens \cap ToSet(SplitWs(Lower(row.question))))
        + 6 * n * Cardinality(tokens \cap ToSet(RowKeywords(row)))
        + (IF IsSubstr(query, Lower(row.answer)) THEN 4 * n ELSE 0)

\* C10: whenever _calculate_relevance returns, its score is confidence times the
\* sum of 1.0 (query in question), 0.8 * matching tokens / query tokens, 0.6 per
\* distinct query token that is a keyword (a repeated token counting once) and
\* 0.4 (query in answer); and the photosynthesis example scores at least 1.8
\* before the confidence factor.
\* (score / (1000 * words) = confidence * DistinctTokenScore / (1000 * tokens),
\* cross-multiplied.)
C10_ScoreIsDistinctTokenFormula ==
    (rank_out # None /\ ~rank_out[1].raised) =>
        LET q == Lower(rank_query)
            row == rank_row[1]
        IN  /\ rank_out[1].score * Cardinality(ToSet(SplitWs(q)))
                 = row.confidence * DistinctTokenScore(q, row) * rank_out[1].words
            /\ (rank_query = ExampleQuery /\ row = ExampleRow) =>
                  rank_out[1].score >= 18 * rank_out[1].words * row.confidence

(***************************************************************************)
(* C11: the score and the number of matching query tokens                   *)
(***************************************************************************)
\* A query token matches the row: it is a word of the question or a keyword
TokenMatches(token, row) ==
    token \in ToSet(SplitWs(Lower(row.question))) \cup ToSet(RowKeywords(row))

\* The query with its i-th token replaced by token
ReplaceToken(query, i, token) ==
    Join([SplitWs(query) EXCEPT ![i] = token], " ")

\* The tokens a query token is replaced by
ReplacementTokens == {Lower(w) : w \in RankWords}

LoadSubjects(rows) ==
    SortedStrings({Title(rows[i].category) : i \in {j \in DOMAIN rows : rows[j].category # << >>}})

\* The subject loop of start_learning_subject: the first subject that contains
\* the lower-cased name or is contained in it; None when there is none
MatchSubject(subjects, subject_name) ==
    LET subject_lower == Lower(subject_name)
        hits == {i \in DOMAIN subjects :
                    \/ IsSubstr(subject_lower, Lower(subjects[i]))
                    \/ IsSubstr(Lower(subjects[i]), subject_lower)}
    IN  IF hits = {} THEN None
        ELSE Some(subjects[CHOOSE i \in hits : \A j \in hits : i <= j])

\* The loop of _load_topics_for_subject over the search results: one topic
\* per distinct question, in result order
TopicsOfResults(results) ==
    LET F[i \in 0..Len(results)] ==
            IF i = 0 THEN << >>
            ELSE IF \E j \in 1..(i-1) : results[j].question = results[i].question
                 THEN F[i-1]
                 ELSE Append(F[i-1], [title |-> results[i].question,
                                      content |-> results[i].answer,
                                      keywords |-> results[i].keywords,
                                      confidence |-> results[i].confidence])
    IN  F[Len(results)]

\* _load_topics_for_subject(subject):
\* search_offline_data(subject, category=subject.lower()), then the loop; the
\* topics it returns and the sqlite table the search leaves
LoadTopicsForSubject(db, rows, subject) ==
    LET Loaded(found) == [topics |-> TopicsOfResults(found.results), db |-> found.db]
    IN  Bind(SearchOfflineData(db, rows, subject, Some(Lower(subject))), Loaded)

\* The topic index select_topic computes (0-based), None when it finds none:
\* int(first digit run) - 1 when the selection holds a digit, else the first
\* topic whose title contains the lower-cased selection
TopicIndex(topics, selection) ==
    LET numbers == FirstNumber(selection)
        hits == {i \in DOMAIN topics : IsSubstr(Lower(selection), Lower(topics[i].title))}
    IN  IF numbers # None THEN Some(ToInt(numbers[1]) - 1)
        ELSE IF hits = {} THEN None
        ELSE Some((CHOOSE i \in hits : \A j \in hits : i <= j) - 1)

\* The validity test of select_topic
ValidTopicIndex(topics, topic_index) ==
    topic_index # None /\ topic_index[1] >= 0 /\ topic_index[1] < Len(topics)

NavResult(cmd, arg, success, action) ==
    Some([cmd |-> cmd, arg |-> arg, success |-> success, action |-> action])

\* The largest access_count the model lets a sqlite row reach
MaxAccess == 1
AccessBounded(db) == \A i \in DOMAIN db : db[i] <= MaxAccess

\* list_available_subjects: speaks self.available_subjects, changes nothing
ListSubjects ==
    /\ nav_result' = NavResult("list_subjects", << >>, TRUE,
                               IF available_subjects = << >> THEN "no_subjects"
                               ELSE "subjects_listed")
    /\ UNCHANGED <<menu_level, current_subject, current_topic, available_subjects,
                   available_topics>>

\* start_learning_subject(subject_name)
StartLearningSubject(subject_name) ==
    \E subject_match \in {MatchSubject(available_subjects, subject_name)} :
        IF subject_match = None
        THEN /\ nav_result' = NavResult("learn", subject_name, FALSE, "subject_not_found")
             /\ UNCHANGED <<menu_level, current_subject, current_topic,
                            available_subjects, available_topics, db_rows>>
        ELSE \E loaded \in {LoadTopicsForSubject(db_rows, csv_rows, subject_match[1])} :
                 /\ lock_owner = None
                 /\ current_subject' = subject_match
                 /\ menu_level' = "subject"
                 /\ available_topics' = loaded.topics
                 /\ db_rows' = loaded.db
                 /\ AccessBounded(db_rows')
                 /\ nav_result' =
                      IF loaded.topics = << >>
                      THEN NavResult("learn", subject_name, FALSE, "no_topics_available")
                      ELSE NavResult("learn", subject_name, TRUE, "topic_menu_presented")
                 /\ UNCHANGED <<current_topic, available_subjects>>

\* select_topic(selection); start_tutorial only speaks
SelectTopic(selection) ==
    \E topic_index \in {TopicIndex(available_topics, selection)} :
        IF available_topics = << >>
        THEN /\ nav_result' = NavResult("select", selection, FALSE, "no_topics_loaded")
             /\ UNCHANGED <<menu_level, current_subject, current_topic,
                            available_subjects, available_topics>>
        ELSE IF ~ValidTopicIndex(available_topics, topic_index)
        THEN /\ nav_result' = NavResult("select", selection, FALSE, "invalid_selection")
             /\ UNCHANGED <<menu_level, current_subject, current_topic,
                            available_subjects, available_topics>>
        ELSE /\ current_topic' = Some(available_topics[topic_index[1] + 1])
             /\ menu_level' = "content"
             /\ nav_result' = NavResult("select", selection, TRUE, "tutorial_complete")
             /\ UNCHANGED <<current_subject, available_subjects, available_topics>>

\* go_back()
GoBack ==
    IF menu_level = "content"
    THEN /\ menu_level' = "topic"
         /\ current_topic' = None
         /\ nav_result' = NavResult("back", << >>, TRUE, "back_to_topics")
         /\ UNCHANGED <<current_subject, available_subjects, available_topics>>
    ELSE IF menu_level = "topic"
    THEN /\ menu_level' = "subject"
         /\ current_subject' = None
         /\ available_topics' = << >>
         /\ nav_result' = NavResult("back", << >>, TRUE, "subjects_listed")
         /\ UNCHANGED <<current_topic, available_subjects>>
    ELSE IF menu_level = "subject"
    THEN /\ menu_level' = "main"
         /\ nav_result' = NavResult("back", << >>, TRUE, "back_to_main")
         /\ UNCHANGED <<current_subject, current_topic, available_subjects,
                        available_topics>>
    ELSE /\ nav_result' = NavResult("back", << >>, FALSE, "at_main_menu")
         /\ UNCHANGED <<menu_level, current_subject, current_topic, available_subjects,
                        available_topics>>

\* repeat_current_content()
RepeatCurrentContent ==
    /\ nav_result' =
         IF menu_level = "content" /\ current_topic # None
         THEN NavResult("repeat", << >>, TRUE, "tutorial_complete")
         ELSE IF menu_level = "topic" /\ available_topics # << >>
         THEN NavResult("repeat", << >>, TRUE, "menu_repeated")
         ELSE IF menu_level = "subject"
         THEN NavResult("repeat", << >>, TRUE, "subjects_listed")
         ELSE NavResult("repeat", << >>, FALSE, "nothing_to_repeat")
    /\ UNCHANGED <<menu_level, current_subject, current_topic, available_subjects,
                   available_topics>>

\* provide_help()
ProvideHelp ==
    /\ nav_result' = NavResult("help", << >>, TRUE, "help_provided")
    /\ UNCHANGED <<menu_level, current_subject, current_topic, available_subjects,
                   available_topics>>

\* available_topics.index(topic): the first place (1-based) of a topic equal
\* to topic, 0 when there is none (the ValueError of _handle_next_topic)
PlaceOfTopic(topics, topic) ==
    IF \E i \in DOMAIN topics : topics[i] = topic
    THEN CHOOSE i \in DOMAIN topics : topics[i] = topic /\ \A j \in 1..(i-1) : topics[j] # topic
    ELSE 0

\* _handle_next_topic: the tutorial of the topic after current_topic; what
\* start_tutorial is given is spoken, and nothing of the session is assigned
HandleNextTopic ==
    /\ nav_result' =
         LET place == IF current_topic = None THEN 0
                      ELSE PlaceOfTopic(available_topics, current_topic[1])
         IN  IF available_topics = << >> \/ place = 0
             THEN NavResult("next_topic", << >>, FALSE, "No current topic")
             ELSE IF place < Len(available_topics)
             THEN NavResult("next_topic", available_topics[place + 1].title, TRUE,
                            "tutorial_complete")
             ELSE NavResult("next_topic", << >>, FALSE, "Last topic reached")
    /\ UNCHANGED <<menu_level, current_subject, current_topic, available_subjects,
                   available_topics>>

\* search_and_present(query) as it would be if a search without results
\* returned the session to the main menu
SearchAndPresentLeavingMenu(query) ==
    \E found \in {SearchOfflineData(db_rows, csv_rows, query, None)} :
        /\ lock_owner = None
        /\ db_rows' = found.db
        /\ AccessBounded(db_rows')
        /\ nav_result' =
             IF found.results = << >>
             THEN NavResult("search", query, FALSE, "prompt_online_search")
             ELSE NavResult("search", query, TRUE, "search_complete")
        /\ menu_level' = IF found.results = << >> THEN "main" ELSE menu_level
        /\ UNCHANGED <<current_subject, current_topic, available_subjects,
                       available_topics>>

\* search_and_present(query)
SearchAndPresent(query) ==
    \E found \in {SearchOfflineData(db_rows, csv_rows, query, None)} :
        /\ lock_owner = None
        /\ db_rows' = found.db
        /\ AccessBounded(db_rows')
        /\ nav_result' =
             IF found.results = << >>
             THEN NavResult("search", query, FALSE, "prompt_online_search")
             ELSE NavResult("search", query, TRUE, "search_complete")
        /\ UNCHANGED <<menu_level, current_subject, current_topic, available_subjects,
                       available_topics>>

(***************************************************************************)
(* add_knowledge_entry and the voice command that calls it                  *)
(***************************************************************************)
\* The most csv rows the model lets the knowledge base hold
MaxRows == 6

\* _generate_id: str(int(time.time() * 1000)); the model's clock starts here
\* and is far above every sqlite AUTOINCREMENT id
StartTime == 1000

\* A call add_knowledge_entry(category, question, answer, keywords, source,
\* confidence) arriving at `with self._lock` (line 192); caller is the function
\* the call returns to
CallAddKnowledgeEntry(category, question, answer, keywords, source, confidence, caller) ==
    /\ Len(csv_rows) < MaxRows
    /\ pc' = "add_entry"
    /\ add_call' = Some([category |-> category, question |-> question, answer |-> answer,
                         keywords |-> keywords, source |-> source,
                         confidence |-> confidence, caller |-> caller])

\* add_knowledge_entry lines 192-215: takes _lock once it is free, appends the
\* csv row, inserts the sqlite row (access_count 0), releases _lock and returns.
\* Returning into cache_online_search, whose own `with self._lock` then releases
\* a lock that is no longer held, ends that call with a RuntimeError.
AddKnowledgeEntry ==
    /\ pc = "add_entry"
    /\ lock_owner = None
    /\ \E call \in {add_call[1]} :
          /\ csv_rows' = Append(csv_rows,
                                KnowledgeRow(clock, call.category, call.question,
                                             call.answer, Join(call.keywords, ","),
                                             call.source, call.confidence))
          /\ put_ret' = IF call.caller = "cache_online_search"
                        THEN Some("RuntimeError") ELSE put_ret
    /\ db_rows' = Append(db_rows, 0)
    /\ clock' = clock + 1
    /\ pc' = "idle"
    /\ add_call' = None
    /\ UNCHANGED lock_owner

s_is ==
    <<" ","i","s"," ">>
s_what_is_ ==
    <<"W","h","a","t"," ","i","s"," ">>
s_user_defined ==
    <<"u","s","e","r","_","d","e","f","i","n","e","d">>
s_user_input ==
    <<"u","s","e","r","_","i","n","p","u","t">>
s_general ==
    <<"g","e","n","e","r","a","l">>
s_user_provided_information ==
    <<"U","s","e","r"," ","p","r","o","v","i","d","e","d"," ","i","n","f","o","r","m","a","t",
      "i","o","n">>

\* add_knowledge_entry's default confidence, 0.8
DefaultConfidence == 80

\* content.split(" is ", 1): the text before and after the first " is "
SplitAtIs(content) ==
    LET at == {i \in 1..(Len(content) - 3) : SubSeq(content, i, i + 3) = s_is}
        e == CHOOSE i \in at : \A j \in at : i <= j
    IN  <<SubSeq(content, 1, e - 1), SubSeq(content, e + 4, Len(content))>>

\* _handle_remember(content, full_text) for a non-blank content, up to its call
\* of add_knowledge_entry: "X is Y" is stored as the question "What is X?" under
\* user_defined, anything else as general knowledge
HandleRemember(content) ==
    /\ pc = "idle"
    /\ Strip(content) # << >>
    /\ IF IsSubstr(s_is, content)
       THEN LET parts == SplitAtIs(content)
            IN  CallAddKnowledgeEntry(s_user_defined,
                                      s_what_is_ \o Strip(parts[1]) \o <<"?">>,
                                      Strip(parts[2]), SplitWs(Strip(parts[1])),
                                      s_user_input, DefaultConfidence, "remember")
       ELSE CallAddKnowledgeEntry(s_general, content, s_user_provided_information,
                                  SplitWs(content), s_user_input, DefaultConfidence,
                                  "remember")

(***************************************************************************)
(* The navigator over a populated knowledge base (specification NavSpec)    *)
(***************************************************************************)
\* A knowledge base as populate_academic_content.py writes it: ids 1, 2, ...,
\* lower-cased subject as category, confidence 0.95, no sqlite rows.  Subject
\* "m" has three topics (two with the same score), "s" has a row that its own
\* name does not find, "general" has one.
PopulatedCsv ==
    <<KnowledgeRow(1, <<"m">>, <<"m"," ","a">>, <<"x","1">>, <<"m",",","a">>, <<"c">>, 95),
      KnowledgeRow(2, <<"m">>, <<"m"," ","b">>, <<"x","2">>, <<"m",",","b">>, <<"c">>, 95),
      KnowledgeRow(3, <<"s">>, <<"g","?">>, <<"x","3">>, <<"g">>, <<"c">>, 95),
      KnowledgeRow(4, <<"m">>, <<"d">>, <<"m"," ","i","s"," ","d">>, <<"d">>, <<"c">>, 95),
      KnowledgeRow(5, s_general, <<"W","h","y"," ">> \o s_general \o <<"?">>, <<"x","4">>,
                   <<"k">>, <<"c">>, 95)>>

\* The largest number a Select command names
MaxSelect == 4

LearnNames == {<<"m">>, <<"S">>, <<"g","e","n">>, <<"z">>}
Selections ==
    {Str(k) : k \in (0 - 1)..MaxSelect}
      \cup {<<"b">>, <<"z","z">>, <<"o","p","t","i","o","n"," ","2">>}
NavQueries == {<<"m">>, <<"z","z">>, <<"g">>}
RememberContents == {s_general \o <<" ","e">>, <<"z"," ","i","s"," ","y">>}

NavInit ==
    /\ csv_rows = PopulatedCsv /\ db_rows = << >> /\ cache_rows = << >>
    /\ clock = StartTime
    /\ lock_owner = None /\ pc = "idle" /\ add_call = None
    /\ put_args = None /\ put_ret = None
    /\ ReqIdle /\ IntentIdle /\ RankIdle
    /\ menu_level = "main" /\ current_subject = None /\ current_topic = None
    /\ available_subjects = LoadSubjects(csv_rows)
    /\ available_topics = << >>
    /\ nav_result = None

navOther == <<cache_rows, lock_owner, put_args, put_ret, reqVars, intentVars, rankVars>>
navIdle == <<csv_rows, clock, pc, add_call, navOther>>

NavListSubjects == pc = "idle" /\ ListSubjects /\ UNCHANGED <<db_rows, navIdle>>
NavLearn ==
    \E name \in LearnNames :
        pc = "idle" /\ StartLearningSubject(name) /\ UNCHANGED navIdle
NavSelect ==
    \E selection \in Selections :
        pc = "idle" /\ SelectTopic(selection) /\ UNCHANGED <<db_rows, navIdle>>
NavBack == pc = "idle" /\ GoBack /\ UNCHANGED <<db_rows, navIdle>>
NavRepeat == pc = "idle" /\ RepeatCurrentContent /\ UNCHANGED <<db_rows, navIdle>>
NavHelp == pc = "idle" /\ ProvideHelp /\ UNCHANGED <<db_rows, navIdle>>
NavNextTopic == pc = "idle" /\ HandleNextTopic /\ UNCHANGED <<db_rows, navIdle>>
NavSearch ==
    \E query \in NavQueries :
        pc = "idle" /\ SearchAndPresent(query) /\ UNCHANGED navIdle
\* "remember ..." up to the call of add_knowledge_entry
NavRemember ==
    \E content \in RememberContents :
        /\ HandleRemember(content)
        /\ UNCHANGED <<csv_rows, db_rows, clock, navVars, navOther>>
\* add_knowledge_entry runs and _handle_remember reports success
NavAddEntry ==
    /\ AddKnowledgeEntry
    /\ nav_result' = NavResult("remember", add_call[1].question, TRUE, "knowledge_added")
    /\ UNCHANGED <<menu_level, current_subject, current_topic, available_subjects,
                   available_topics, cache_rows, put_args, reqVars, intentVars, rankVars>>

NavNext ==
    \/ NavListSubjects \/ NavLearn \/ NavSelect \/ NavBack \/ NavRepeat
    \/ NavHelp \/ NavSearch \/ NavRemember \/ NavAddEntry \/ NavNextTopic

NavSpec == NavInit /\ [][NavNext]_vars

(***************************************************************************)
(* C1 - C3: the navigator's invariant, Back and Select                      *)
(***************************************************************************)
navContext == <<menu_level, current_subject, current_topic, available_subjects,
                available_topics>>

\* C1: in every reachable state, menu_level = 'content' implies a current
\* topic, and menu_level 'subject', 'topic' or 'content' implies a current
\* subject.
C1_MenuLevelInvariant ==
    /\ menu_level = "content" => current_topic # None
    /\ menu_level \in {"subject", "topic", "content"} => current_subject # None

\* The step is the command cmd
IsCommand(cmd) == nav_result' # None /\ nav_result'[1].cmd = cmd

\* C2: Back at the Main level changes nothing of the session context; Back at
\* the Subject level sets menu_level to Main and clears current_subject and
\* available_topics.
C2_BackContract ==
    [][IsCommand("back") =>
          /\ menu_level = "main" => UNCHANGED navContext
          /\ menu_level = "subject" =>
                /\ menu_level' = "main"
                /\ current_subject' = None
                /\ available_topics' = << >>]_vars

\* C3: with n topics, Select(k) for 1 <= k <= n makes the k-th topic current;
\* Select(k) for k < 1 or k > n, and a selection without a number that no
\* topic title contains, reports an error and leaves menu_level,
\* current_subject, current_topic and available_topics unchanged.
C3_SelectContract ==
    [][IsCommand("select") =>
          LET selection == nav_result'[1].arg
              n == Len(available_topics)
              Rejected ==
                  /\ ~nav_result'[1].success
                  /\ UNCHANGED <<menu_level, current_subject, current_topic,
                                 available_topics>>
          IN  /\ \A k \in (0 - 1)..MaxSelect :
                    selection = Str(k) =>
                        IF 1 <= k /\ k <= n
                        THEN current_topic' = Some(available_topics[k])
                        ELSE Rejected
              /\ (/\ FirstNumber(selection) = None
                  /\ \A i \in 1..n :
                        ~IsSubstr(Lower(selection), Lower(available_topics[i].title)))
                    => Rejected]_vars

(***************************************************************************)
(* C19, C20: Learn and the topics it loads                                  *)
(***************************************************************************)
\* C19: Learn(subjectName) moves to the Subject level only when the matched
\* subject has at least one topic; when a subject matches but no topic is
\* loaded for it, the command reports 'no topics' and leaves menu_level
\* unchanged; when no subject matches, it reports failure and leaves
\* menu_level, current_subject and available_topics unchanged.
C19_LearnContract ==
    [][IsCommand("learn") =>
          LET subject_match == MatchSubject(available_subjects, nav_result'[1].arg)
          IN  /\ menu_level' # menu_level =>
                    /\ menu_level' = "subject"
                    /\ subject_match # None
                    /\ available_topics' # << >>
              /\ (subject_match # None /\ available_topics' = << >>) =>
                    /\ nav_result'[1].action = "no_topics_available"
                    /\ ~nav_result'[1].success
                    /\ UNCHANGED menu_level
              /\ subject_match = None =>
                    /\ ~nav_result'[1].success
                    /\ UNCHANGED <<menu_level, current_subject, available_topics>>]_vars

\* The questions of the records whose category is the subject, whatever the case
QuestionsOfCategory(rows, subject) ==
    {rows[i].question : i \in {j \in DOMAIN rows : Lower(rows[j].category) = Lower(subject)}}

\* C20: after a Learn that matches a subject, available_topics holds exactly
\* one topic per distinct question among the records whose category is the
\* matched subject (case-insensitively), whether or not a record's text
\* mentions the subject's name, and no topic of another category.
C20_TopicsAreTheSubjectsRecords ==
    [][IsCommand("learn") =>
          LET subject_match == MatchSubject(available_subjects, nav_result'[1].arg)
          IN  subject_match # None =>
                 /\ {available_topics'[i].title : i \in DOMAIN available_topics'}
                        = QuestionsOfCategory(csv_rows, subject_match[1])
                 /\ Len(available_topics')
                        = Cardinality(QuestionsOfCategory(csv_rows, subject_match[1]))]_vars

(***************************************************************************)
(* C21, C22: the commands that only speak                                   *)
(***************************************************************************)
\* C21: ListSubjects, in any state and after any additions to the knowledge
\* base, leaves available_subjects equal to the distinct categories of the
\* records the knowledge base holds now (a category that a later "remember"
\* introduced is listed), and does not change menu_level.
C21_ListSubjectsIsCurrent ==
    [][IsCommand("list_subjects") =>
          /\ available_subjects' = LoadSubjects(csv_rows')
          /\ UNCHANGED menu_level]_vars

\* C22: Repeat, Help and Search never transition: at every menu level they
\* leave menu_level, current_subject, current_topic and available_topics as
\* they were, whatever the query and whether or not the search finds results.
C22_RepeatHelpSearchKeepContext ==
    [][(IsCommand("repeat") \/ IsCommand("help") \/ IsCommand("search")) =>
          UNCHANGED <<menu_level, current_subject, current_topic, available_topics>>]_vars

\* A search that found nothing was made while a tutorial was current
C22_Witness ==
    /\ nav_result # None /\ nav_result[1].cmd = "search" /\ ~nav_result[1].success
    /\ menu_level = "content" /\ current_topic # None /\ available_topics # << >>

(***************************************************************************)
(* C28: the access counts a search increments                               *)
(***************************************************************************)
\* The sqlite row that add_knowledge_entry inserted together with the csv record
\* at place i (0 or less: the record was written to the csv file only)
DbPlaceOf(i) == i - (Len(csv_rows) - Len(db_rows))

\* The ids of the first three results of a search for query
TopAccessedIds(query) ==
    LET top == Take(RankedResults(csv_rows, query, None), TopAccessed)
    IN  {top[k].id : k \in DOMAIN top}

\* C28: every increment a search makes is applied to the record the search
\* returned: after search_offline_data the stored access count of every
\* record among the top three results (seed records and records created by
\* add_knowledge_entry alike) is one higher than before, and that of every
\* other record is unchanged.
C28_IncrementsGoToReturnedRecords ==
    [][IsCommand("search") =>
          \A i \in DOMAIN csv_rows :
              IF csv_rows[i].id \in TopAccessedIds(nav_result'[1].arg)
              THEN /\ DbPlaceOf(i) >= 1
                   /\ db_rows'[DbPlaceOf(i)] = db_rows[DbPlaceOf(i)] + 1
              ELSE DbPlaceOf(i) >= 1 => db_rows'[DbPlaceOf(i)] = db_rows[DbPlaceOf(i)]]_vars

(***************************************************************************)
(* C29: 'next topic' after 'next topic'                                     *)
(***************************************************************************)
\* The place in available_topics of the tutorial the last command delivered:
\* the selected topic after a Select, the delivered one after a 'next topic'
DeliveredPlace ==
    IF nav_result[1].cmd = "select"
    THEN PlaceOfTopic(available_topics, current_topic[1])
    ELSE CHOOSE i \in DOMAIN available_topics :
             available_topics[i].title = nav_result[1].arg

\* The last command was a Select or a 'next topic' that delivered a tutorial
TutorialJustDelivered ==
    /\ nav_result # None
    /\ nav_result[1].cmd \in {"select", "next_topic"}
    /\ nav_result[1].success

\* C29: a 'next topic' command given right after a tutorial was delivered (by
\* Select or by 'next topic') delivers the topic after the delivered one in
\* available_topics, and reports that the last topic is reached when the
\* delivered one was the last; so repeated commands walk the list in order.
C29_NextTopicWalksInOrder ==
    [][(TutorialJustDelivered /\ IsCommand("next_topic")) =>
          IF DeliveredPlace < Len(available_topics)
          THEN /\ nav_result'[1].success
               /\ nav_result'[1].arg = available_topics[DeliveredPlace + 1].title
          ELSE /\ ~nav_result'[1].success
               /\ nav_result'[1].action = "Last topic reached"]_vars

(***************************************************************************)
(* The search cache (search_cache.csv) and the promotion of cached answers  *)
(***************************************************************************)
\* hashlib.md5(query.encode()).hexdigest(): a digest of the query text as it
\* is given; two queries have the same digest exactly when they are the same text
QueryHash(query) == <<"md5", query>>

CacheRow(query_hash, query, response, source, timestamp, access_count) ==
    [query_hash |-> query_hash, query |-> query, response |-> response,
     source |-> source, timestamp |-> timestamp, access_count |-> access_count]

\* search_cache.csv after cache_online_search lines 260-285: every row with the
\* query's hash gets access_count + 1 and a new timestamp; without such a row a
\* new one is appended with access_count 1
CacheAfterPut(cache, query, response, source, now) ==
    LET query_hash == QueryHash(query)
        cached == \E i \in DOMAIN cache : cache[i].query_hash = query_hash
    IN  IF cached
        THEN [i \in DOMAIN cache |->
                IF cache[i].query_hash = query_hash
                THEN [cache[i] EXCEPT !.access_count = @ + 1, !.timestamp = now]
                ELSE cache[i]]
        ELSE Append(cache, CacheRow(query_hash, query, response, source, now, 1))

\* get_search_cache(query): the first row with the query's hash, as it was read,
\* and the file after _update_cache_access (access_count + 1 on every such row)
GetSearchCache(cache, query) ==
    LET query_hash == QueryHash(query)
        hits == {i \in DOMAIN cache : cache[i].query_hash = query_hash}
    IN  IF hits = {}
        THEN [hit |-> None, cache |-> cache]
        ELSE [hit |-> Some(cache[CHOOSE i \in hits : \A j \in hits : i <= j]),
              cache |-> [i \in DOMAIN cache |->
                           IF i \in hits THEN [cache[i] EXCEPT !.access_count = @ + 1]
                           ELSE cache[i]]]

s_what_is ==
    <<"w","h","a","t"," ","i","s">>
s_explain ==
    <<"e","x","p","l","a","i","n">>
s_how_to ==
    <<"h","o","w"," ","t","o">>
s_define ==
    <<"d","e","f","i","n","e">>
s_ai ==
    <<"a","i">>
s_wikipedia ==
    <<"w","i","k","i","p","e","d","i","a">>
s_academic ==
    <<"a","c","a","d","e","m","i","c">>
s_google ==
    <<"g","o","o","g","l","e">>
s_science ==
    <<"s","c","i","e","n","c","e">>
s_humanities ==
    <<"h","u","m","a","n","i","t","i","e","s">>
s_technology ==
    <<"t","e","c","h","n","o","l","o","g","y">>

\* _extract_knowledge_from_cache, lines 301-303
TriggerPhrases == {s_what_is, s_explain, s_how_to, s_define}
PromotableSources == {s_ai, s_wikipedia, s_academic}
PromotionLength == 100
ShouldPromote(query, response, source) ==
    /\ Len(response) > PromotionLength
    /\ \E word \in TriggerPhrases : IsSubstr(word, Lower(query))
    /\ source \in PromotableSources

\* keywords = [word.strip() for word in query.lower().split() if len(word) > 3]
KeywordMinLength == 3
PromotedKeywords(query) ==
    LET words == SplitWs(Lower(query))
    IN  SelectRows(words, {i \in DOMAIN words : Len(words[i]) > KeywordMinLength})

\* The category table, lines 309-315
ScienceWords ==
    {<<"m","a","t","h">>, <<"p","h","y","s","i","c","s">>,
     <<"c","h","e","m","i","s","t","r","y">>, <<"b","i","o","l","o","g","y">>}
HumanitiesWords ==
    {<<"h","i","s","t","o","r","y">>, <<"l","i","t","e","r","a","t","u","r","e">>,
     <<"a","r","t">>}
TechnologyWords ==
    {<<"p","r","o","g","r","a","m","m","i","n","g">>, <<"c","o","d","e">>,
     <<"c","o","m","p","u","t","e","r">>}
PromotedCategory(query) ==
    LET Has(words) == \E word \in words : IsSubstr(word, Lower(query))
    IN  IF Has(ScienceWords) THEN s_science
        ELSE IF Has(HumanitiesWords) THEN s_humanities
        ELSE IF Has(TechnologyWords) THEN s_technology
        ELSE s_general
PromotedConfidence == 70

\* The largest access_count the model lets a row of search_cache.csv reach
MaxCacheAccess == 3
CacheBounded(cache) == \A i \in DOMAIN cache : cache[i].access_count <= MaxCacheAccess

\* cache_online_search(query, response, source): under _lock, updates the cache
\* file, then _extract_knowledge_from_cache; when the heuristic holds that calls
\* add_knowledge_entry with _lock still held by this call
CacheOnlineSearch(query, response, source) ==
    /\ pc = "idle"
    /\ lock_owner = None
    /\ put_args' = Some([query |-> query, response |-> response, source |-> source])
    /\ cache_rows' = CacheAfterPut(cache_rows, query, response, source, clock)
    /\ CacheBounded(cache_rows')
    /\ IF ShouldPromote(query, response, source)
       THEN /\ lock_owner' = Some("cache_online_search")
            /\ CallAddKnowledgeEntry(PromotedCategory(query), query, response,
                                     PromotedKeywords(query), source, PromotedConfidence,
                                     "cache_online_search")
            /\ put_ret' = None
       ELSE /\ put_ret' = Some("True")
            /\ UNCHANGED <<lock_owner, pc, add_call>>
    /\ UNCHANGED <<csv_rows, db_rows, clock>>

(***************************************************************************)
(* Search requests: search_offline_data, the voice command "search offline",*)
(* GoogleSearchManager.smart_search / search_google, and                    *)
(* ModernAIVIGUI.search_enhanced / search_academic                          *)
(***************************************************************************)
\* What a request was and what it returned.  offline_top is the answer of the
\* best record search_offline_data has for the query when the request starts
\* (None without one); rows is the number of knowledge records then;
\* online_calls and ai_calls count the calls to the online search and to OpenAI.
Request(op, strategy, query, category, results, error_logged, response, source, success, online_calls, ai_calls, offline_top, rows) ==
    Some([op |-> op, strategy |-> strategy, query |-> query, category |-> category,
          results |-> results, error_logged |-> error_logged, response |-> response,
          source |-> source, success |-> success, online_calls |-> online_calls,
          ai_calls |-> ai_calls, offline_top |-> offline_top, rows |-> rows])

ResultIds(results) == [i \in DOMAIN results |-> results[i].id]
TopAnswer(results) == IF results = << >> THEN None ELSE Some(results[1].answer)

\* search_offline_data(query, category) called on its own
SearchOfflineDataCall(query, category) ==
    \E found \in {SearchOfflineData(db_rows, csv_rows, query, category)} :
    \E error_logged \in {SearchRaises(csv_rows, query, category)} :
        /\ pc = "idle"
        /\ lock_owner = None
        /\ db_rows' = found.db
        /\ AccessBounded(db_rows')
        /\ req' = Request("search_offline_data", "offline_only", query, category,
                          ResultIds(found.results), error_logged,
                          TopAnswer(found.results), "offline", found.results # << >>,
                          0, 0, TopAnswer(found.results), Len(csv_rows))
        /\ UNCHANGED <<csv_rows, cache_rows, clock, lock_owner, pc, add_call, put_args,
                       put_ret, search_mode>>

s_based_on_my_offline_knowledge_ ==
    <<"B","a","s","e","d"," ","o","n"," ","m","y"," ","o","f","f","l","i","n","e"," ","k",
      "n","o","w","l","e","d","g","e",":"," ">>
s_from_my_search_history_ ==
    <<"F","r","o","m"," ","m","y"," ","s","e","a","r","c","h"," ","h","i","s","t","o","r",
      "y",":"," ">>

\* EnhancedVoiceManager._handle_offline_search(query, full_text): a blank query
\* is refused; otherwise the knowledge base, then the cache, never online
HandleOfflineSearch(query) ==
    \E found \in {SearchOfflineData(db_rows, csv_rows, query, None)} :
    \E error_logged \in {SearchRaises(csv_rows, query, None)} :
    \E cached \in {GetSearchCache(cache_rows, query)} :
        /\ pc = "idle"
        /\ lock_owner = None
        /\ IF Strip(query) = << >>
           THEN /\ req' = Request("offline_search", "offline_only", query, None, << >>,
                                  FALSE, None, "none", FALSE, 0, 0, None, Len(csv_rows))
                /\ UNCHANGED <<db_rows, cache_rows>>
           ELSE IF found.results # << >>
           THEN /\ db_rows' = found.db
                /\ AccessBounded(db_rows')
                /\ req' = Request("offline_search", "offline_only", query, None,
                                  ResultIds(found.results), FALSE,
                                  Some(s_based_on_my_offline_knowledge_
                                         \o found.results[1].answer),
                                  "offline", TRUE, 0, 0, TopAnswer(found.results),
                                  Len(csv_rows))
                /\ UNCHANGED cache_rows
           ELSE /\ db_rows' = found.db
                /\ AccessBounded(db_rows')
                /\ cache_rows' = cached.cache
                /\ CacheBounded(cache_rows')
                /\ req' = IF cached.hit # None
                          THEN Request("offline_search", "offline_only", query, None,
                                       << >>, error_logged,
                                       Some(s_from_my_search_history_
                                              \o cached.hit[1].response),
                                       "cache", TRUE, 0, 0, None, Len(csv_rows))
                          ELSE Request("offline_search", "offline_only", query, None,
                                       << >>, error_logged,
                                       None, "none", FALSE, 0, 0, None, Len(csv_rows))
        /\ UNCHANGED <<csv_rows, clock, lock_owner, pc, add_call, put_args, put_ret,
                       search_mode>>

\* What the online search does when it is called: it answers with results, it
\* answers without any, or the request fails
OnlineOutcomes == {"results", "no_results", "error"}

\* search_google(query) on the cache file `cache`: the dictionary it returns, the
\* cache file it leaves and the number of requests it sent.  A cache hit of any
\* source is returned as "google_cache"; results are cached with source "google".
SearchGoogle(cache, query, outcome, summary, now) ==
    LET Outcome(cached) ==
            IF cached.hit # None
            THEN [success |-> TRUE, response |-> Some(cached.hit[1].response),
                  source |-> "google_cache", cache |-> cached.cache, online_calls |-> 0]
            ELSE IF outcome = "results"
            THEN [success |-> TRUE, response |-> Some(summary), source |-> "google",
                  cache |-> CacheAfterPut(cached.cache, query, summary, s_google, now),
                  online_calls |-> 1]
            ELSE IF outcome = "no_results"
            THEN [success |-> FALSE, response |-> None, source |-> "google",
                  cache |-> cached.cache, online_calls |-> 1]
            ELSE [success |-> FALSE, response |-> None, source |-> "none",
                  cache |-> cached.cache, online_calls |-> 1]
    IN  Bind(GetSearchCache(cache, query), Outcome)

\* smart_search(query, prefer_offline) after its offline stage found nothing or
\* was skipped: a cached row of source 'google', else search_google
SmartSearchOnline(cache, query, outcome, summary, now) ==
    LET Outcome(cached) ==
            IF cached.hit # None /\ cached.hit[1].source = s_google
            THEN [success |-> TRUE, response |-> Some(cached.hit[1].response),
                  source |-> "google_cache", cache |-> cached.cache, online_calls |-> 0]
            ELSE SearchGoogle(cached.cache, query, outcome, summary, now)
    IN  Bind(GetSearchCache(cache, query), Outcome)

\* smart_search(query, prefer_offline), the online search doing one of
\* OnlineOutcomes and summarising its results as one of summaries
SmartSearch(query, summaries) ==
    \E found \in {SearchOfflineData(db_rows, csv_rows, query, None)} :
    \E error_logged \in {SearchRaises(csv_rows, query, None)} :
    \E prefer_offline \in BOOLEAN, outcome \in OnlineOutcomes, summary \in summaries :
        /\ pc = "idle"
        /\ lock_owner = None
        /\ IF prefer_offline
           THEN db_rows' = found.db /\ AccessBounded(db_rows')
           ELSE UNCHANGED db_rows
        /\ IF prefer_offline /\ found.results # << >>
           THEN /\ req' = Request("smart_search", "offline_first", query, None,
                                  ResultIds(found.results), FALSE,
                                  Some(found.results[1].answer), "offline", TRUE, 0, 0,
                                  TopAnswer(found.results), Len(csv_rows))
                /\ UNCHANGED cache_rows
           ELSE \E online \in {SmartSearchOnline(cache_rows, query, outcome, summary, clock)} :
                    /\ cache_rows' = online.cache
                    /\ CacheBounded(cache_rows')
                    /\ req' = Request("smart_search",
                                      IF prefer_offline THEN "offline_first"
                                      ELSE "online_first",
                                      query, None, << >>,
                                      prefer_offline /\ error_logged,
                                      online.response, online.source, online.success,
                                      online.online_calls, 0, TopAnswer(found.results),
                                      Len(csv_rows))
        /\ UNCHANGED <<csv_rows, clock, lock_owner, pc, add_call, put_args, put_ret,
                       search_mode>>

s_academic_search_error ==
    <<"A","c","a","d","e","m","i","c"," ","s","e","a","r","c","h"," ","e","r","r","o","r",
      ":"," ","'","M","o","d","e","r","n","A","I","V","I","G","U","I","'"," ","o","b","j",
      "e","c","t"," ","h","a","s"," ","n","o"," ","a","t","t","r","i","b","u","t","e"," ",
      "'","o","f","f","l","i","n","e","_","d","a","t","a","_","m","a","n","a","g","e","r",
      "'">>

\* search_academic(query): its first statement reads self.offline_data_manager
\* (line 2034), an attribute no statement of ModernAIVIGUI assigns; the
\* AttributeError is caught at line 2117 and its text is returned.  Neither the
\* knowledge base nor OpenAI is reached.
SearchAcademic(query) ==
    [success |-> FALSE, response |-> Some(s_academic_search_error), source |-> "error",
     online_calls |-> 0, ai_calls |-> 0]

\* search_enhanced in offline_first mode as lines 2133-2138 read, were
\* search_knowledge to return the knowledge base's results and add_knowledge to
\* store its arguments: an offline answer is written back as a new record
SearchEnhancedWritingBack(query) ==
    \E found \in {SearchOfflineData(db_rows, csv_rows, query, None)} :
        /\ pc = "idle"
        /\ found.results # << >>
        /\ Len(csv_rows) < MaxRows
        /\ csv_rows' = Append(csv_rows,
                              KnowledgeRow(clock, s_general, query, found.results[1].answer,
                                           << >>, <<"s","e","a","r","c","h","_","c","a","c","h","e">>,
                                           DefaultConfidence))
        /\ req' = Request("search_enhanced", search_mode, query, None,
                          ResultIds(found.results), FALSE, Some(found.results[1].answer),
                          "offline", TRUE, 0, 0, TopAnswer(found.results), Len(csv_rows))
        /\ UNCHANGED <<db_rows, cache_rows, clock, lock_owner, pc, add_call, put_args,
                       put_ret, search_mode>>

\* search_enhanced(query): in every search_mode the first call is of a method
\* that does not exist -- OfflineDataManager has no search_knowledge (line 2133),
\* GoogleSearchManager has no search (line 2153) -- or search_academic itself; the
\* AttributeError is caught at line 2170 and search_academic(query) is returned
SearchEnhanced(query) ==
    \E answer \in {SearchAcademic(query)} :
    \E found \in {SearchOfflineData(db_rows, csv_rows, query, None)} :
        /\ pc = "idle"
        /\ req' = Request("search_enhanced", search_mode, query, None, << >>, FALSE,
                          answer.response, answer.source, answer.success,
                          answer.online_calls, answer.ai_calls,
                          TopAnswer(found.results), Len(csv_rows))
        /\ UNCHANGED <<storeVars, search_mode>>

(***************************************************************************)
(* The knowledge base, the cache and the search requests together           *)
(* (specification Spec)                                                     *)
(***************************************************************************)
SeedAnswerAI ==
    <<"A","r","t","i","f","i","c","i","a","l"," ","I","n","t","e","l","l","i","g","e","n",
      "c","e"," ","(","A","I",")"," ","i","s"," ","t","e","c","h","n","o","l","o","g","y",
      " ","t","h","a","t"," ","e","n","a","b","l","e","s"," ","m","a","c","h","i","n","e",
      "s"," ","t","o"," ","s","i","m","u","l","a","t","e"," ","h","u","m","a","n"," ","i",
      "n","t","e","l","l","i","g","e","n","c","e",".",".",".">>
SeedAnswerPhotosynthesis ==
    <<"P","h","o","t","o","s","y","n","t","h","e","s","i","s"," ","i","s"," ","t","h","e",
      " ","p","r","o","c","e","s","s"," ","b","y"," ","w","h","i","c","h"," ","p","l","a",
      "n","t","s"," ","u","s","e"," ","s","u","n","l","i","g","h","t",","," ","w","a","t",
      "e","r",","," ","a","n","d"," ","c","a","r","b","o","n"," ","d","i","o","x","i","d",
      "e"," ","t","o"," ","p","r","o","d","u","c","e"," ","g","l","u","c","o","s","e"," ",
      "a","n","d"," ","o","x","y","g","e","n",".",".",".">>
SeedAnswerGravity ==
    <<"G","r","a","v","i","t","y"," ","i","s"," ","a"," ","f","u","n","d","a","m","e","n",
      "t","a","l"," ","f","o","r","c","e"," ","t","h","a","t"," ","a","t","t","r","a","c",
      "t","s"," ","o","b","j","e","c","t","s"," ","w","i","t","h"," ","m","a","s","s"," ",
      "t","o","w","a","r","d"," ","e","a","c","h"," ","o","t","h","e","r",".",".",".">>
s_builtin ==
    <<"b","u","i","l","t","i","n">>
s_What_is_AI_ ==
    <<"W","h","a","t"," ","i","s"," ","A","I","?">>
s_What_is_gravity_ ==
    <<"W","h","a","t"," ","i","s"," ","g","r","a","v","i","t","y","?">>
SeedKeywordsAI ==
    <<"a","i",",","a","r","t","i","f","i","c","i","a","l"," ","i","n","t","e","l","l","i",
      "g","e","n","c","e",",","m","a","c","h","i","n","e"," ","l","e","a","r","n","i","n",
      "g">>
SeedKeywordsPhotosynthesis ==
    <<"p","h","o","t","o","s","y","n","t","h","e","s","i","s",",","p","l","a","n","t","s",
      ",","b","i","o","l","o","g","y">>
SeedKeywordsGravity ==
    <<"g","r","a","v","i","t","y",",","p","h","y","s","i","c","s",",","f","o","r","c","e">>

\* aivi_knowledge_base.csv as _initialize_data_files writes it (lines 52-56)
SeedCsv ==
    <<KnowledgeRow(1, s_general, s_What_is_AI_, SeedAnswerAI, SeedKeywordsAI, s_builtin, 90),
      KnowledgeRow(2, s_academic, ExampleQuestion, SeedAnswerPhotosynthesis,
                   SeedKeywordsPhotosynthesis, s_builtin, 95),
      KnowledgeRow(3, s_science, s_What_is_gravity_, SeedAnswerGravity,
                   SeedKeywordsGravity, s_builtin, 90)>>

q_what_is_ai ==
    <<"w","h","a","t"," ","i","s"," ","a","i">>
q_What_is_AI ==
    <<"W","h","a","t"," ","i","s"," ","A","I">>
ShortResponse ==
    <<"r">>

LongResponse == [i \in 1..(PromotionLength + 1) |-> "y"]

\* "rain" holds the keyword "ai" of a seed record and none of its words
SearchQueries == {q_what_is_ai, << >>, <<"r","a","i","n">>}
SearchCategories == {None, Some(<<"G","e","n","e","r","a","l">>)}
Summaries == {ShortResponse}

\* The application after construction: the knowledge base file is absent or
\* freshly written (the seed rows), or present without rows; nothing is cached
Init ==
    /\ csv_rows \in {<< >>, SeedCsv}
    /\ db_rows = << >> /\ cache_rows = << >>
    /\ clock = StartTime
    /\ lock_owner = None /\ pc = "idle" /\ add_call = None
    /\ put_args = None /\ put_ret = None
    /\ ReqIdle /\ IntentIdle /\ RankIdle
    /\ menu_level = "main" /\ current_subject = None /\ current_topic = None
    /\ available_subjects = LoadSubjects(csv_rows)
    /\ available_topics = << >>
    /\ nav_result = None

specOther == <<navVars, intentVars, rankVars>>

KnowledgeSearch ==
    \E query \in SearchQueries, category \in SearchCategories :
        SearchOfflineDataCall(query, category) /\ UNCHANGED specOther
OfflineSearch ==
    \E query \in SearchQueries : HandleOfflineSearch(query) /\ UNCHANGED specOther
SmartSearchRequest ==
    \E query \in SearchQueries : SmartSearch(query, Summaries) /\ UNCHANGED specOther
EnhancedSearchRequest ==
    \E query \in SearchQueries : SearchEnhanced(query) /\ UNCHANGED specOther

Next == KnowledgeSearch \/ OfflineSearch \/ SmartSearchRequest \/ EnhancedSearchRequest

Spec == Init /\ [][Next]_vars

(***************************************************************************)
(* C13: the order of the stages after the knowledge base                    *)
(***************************************************************************)
\* The request of this step is an offline_first one for which the knowledge
\* base had no usable result
OfflineFirstMiss ==
    /\ req' # None
    /\ req'[1].strategy = "offline_first"
    /\ req'[1].offline_top = None

\* The cache entry of exactly the query of this step's request, before the step
CachedBefore == GetSearchCache(cache_rows, req'[1].query).hit

\* C13: in an offline_first request for which the knowledge base has no usable
\* result, a cache entry of exactly the query is returned and the online search
\* is not called; the online search is called only after the cache had no such
\* entry; and the AI is consulted only after the online search was called.
C13_StagesInOrder ==
    [][OfflineFirstMiss =>
          /\ CachedBefore # None =>
                /\ req'[1].response = Some(CachedBefore[1].response)
                /\ req'[1].online_calls = 0
          /\ req'[1].online_calls > 0 => CachedBefore = None
          /\ req'[1].ai_calls > 0 => req'[1].online_calls > 0]_vars

(***************************************************************************)
(* C15: a stage that raises                                                 *)
(***************************************************************************)
\* C15: a stage that fails is followed by the next stage of the strategy and
\* none is skipped, so a request of a strategy with an online stage ends
\* without a result only after the online search was called (the failure of an
\* earlier stage does not end the request).
C15_NoStageSkippedOnError ==
    (/\ req # None
     /\ req[1].strategy \in {"offline_first", "online_first", "google_first"}
     /\ ~req[1].success) =>
        req[1].online_calls > 0

(***************************************************************************)
(* search_enhanced in each search mode (specification ModeSpec)             *)
(***************************************************************************)
\* The values search_enhanced compares self.search_mode with (lines 2131, 2150,
\* 2166), the ones process_command assigns (lines 1805, 1809, 1813)
SearchModes == {"offline_first", "google_first", "ai_only"}

\* The application with its search mode attribute holding any of its values
ModeInit ==
    /\ csv_rows \in {<< >>, SeedCsv}
    /\ db_rows = << >> /\ cache_rows = << >>
    /\ clock = StartTime
    /\ lock_owner = None /\ pc = "idle" /\ add_call = None
    /\ put_args = None /\ put_ret = None
    /\ search_mode \in SearchModes /\ req = None
    /\ IntentIdle /\ RankIdle
    /\ menu_level = "main" /\ current_subject = None /\ current_topic = None
    /\ available_subjects = LoadSubjects(csv_rows)
    /\ available_topics = << >>
    /\ nav_result = None

ModeSpec == ModeInit /\ [][Next]_vars

OrderRows == 12

\* The questions, in turn, of the records add_knowledge_entry was called with
OrderQuestions == <<(<<"p">>), (<<"p"," ","q">>), (<<"q"," ","p">>)>>

\* The knowledge base after OrderRows calls of add_knowledge_entry, the k-th
\* question of OrderQuestions first: ids are the clock values, the sqlite rows
\* have access_count 0
OrderStore(k) ==
    [i \in 1..OrderRows |->
        KnowledgeRow(StartTime + i - 1,
                     IF i % 2 = 0 THEN <<"a">> ELSE <<"b">>,
                     OrderQuestions[((i + k) % 3) + 1],
                     <<"x">>,
                     IF i % 4 = 0 THEN <<"q">> ELSE << >>,
                     s_user_input,
                     IF i % 3 = 0 THEN 70 ELSE 95)]

OrderStores == {Take(OrderStore(k), n) : k \in 0..2, n \in 0..OrderRows}

OrderQueries == {<<"p">>, <<"q">>, <<"p"," ","q">>, <<"P">>, << >>}

OrderCategories == {None, Some(<<"a">>), Some(<<"B">>)}

OrderInit ==
    /\ csv_rows \in OrderStores
    /\ db_rows = [i \in 1..Len(csv_rows) |-> 0]
    /\ cache_rows = << >>
    /\ clock = StartTime + Len(csv_rows)
    /\ lock_owner = None /\ pc = "idle" /\ add_call = None
    /\ put_args = None /\ put_ret = None
    /\ ReqIdle /\ NavIdle /\ IntentIdle /\ RankIdle

OrderSearch ==
    /\ req = None
    /\ \E query \in OrderQueries, category \in OrderCategories :
          SearchOfflineDataCall(query, category)
    /\ UNCHANGED specOther

OrderNext == OrderSearch

OrderSpec == OrderInit /\ [][OrderNext]_vars

(***************************************************************************)
(* C12: the order and the number of the records a search returns            *)
(***************************************************************************)
\* The place in the knowledge base of the record with this id
PlaceOfId(id) == CHOOSE i \in DOMAIN csv_rows : csv_rows[i].id = id

\* The record at place i comes before the one at place j in the full ordering
\* of query's results: a higher score, or the same score and inserted earlier
ComesBefore(query, i, j) ==
    LET si == CalculateRelevance(Lower(query), csv_rows[i])
        sj == CalculateRelevance(Lower(query), csv_rows[j])
    IN  si > sj \/ (si = sj /\ i < j)

\* The places of the records search_offline_data scores for the request
MatchingPlaces(query, category) ==
    {i \in DOMAIN csv_rows :
        RowMatchesQuery(Lower(query), csv_rows[i]) /\ RowInCategory(category, csv_rows[i])}

\* C12: search_offline_data returns at most 10 records; they are in descending
\* order of relevance score, records of equal score in the order they were
\* inserted; and they are the first 10 of that ordering of all the records the
\* search scored (a search whose scoring fails returns none).
C12_TopTenInStableScoreOrder ==
    (req # None /\ req[1].op = "search_offline_data") =>
        LET r == req[1]
            places == [k \in DOMAIN r.results |-> PlaceOfId(r.results[k])]
            matching == MatchingPlaces(r.query, r.category)
        IN  /\ Len(r.results) <= 10
            /\ r.error_logged => r.results = << >>
            /\ ~r.error_logged =>
                  /\ \A k \in 1..(Len(places) - 1) :
                        ComesBefore(r.query, places[k], places[k + 1])
                  /\ ToSet(places) \subseteq matching
                  /\ Len(places) = IF Cardinality(matching) < 10
                                   THEN Cardinality(matching) ELSE 10
                  /\ \A i \in matching \ ToSet(places) :
                        \A k \in DOMAIN places : ComesBefore(r.query, places[k], i)

\* A search returned 10 of more than 10 scored records, two of equal score next
\* to each other and one of lower score after them.
C12_Witness ==
    /\ req # None
    /\ req[1].op = "search_offline_data"
    /\ Len(req[1].results) = 10
    /\ Cardinality(MatchingPlaces(req[1].query, req[1].category)) > 10
    /\ \E k \in 1..9 :
          CalculateRelevance(Lower(req[1].query), csv_rows[PlaceOfId(req[1].results[k])])
            = CalculateRelevance(Lower(req[1].query), csv_rows[PlaceOfId(req[1].results[k + 1])])
    /\ \E k \in 1..9 :
          CalculateRelevance(Lower(req[1].query), csv_rows[PlaceOfId(req[1].results[k])])
            > CalculateRelevance(Lower(req[1].query), csv_rows[PlaceOfId(req[1].results[k + 1])])

(***************************************************************************)
(* C27: which knowledge base result the offline stage answers with          *)
(***************************************************************************)
\* The relevance score of the top-ranked record of the last request
TopScore ==
    CalculateRelevance(Lower(req[1].query),
                       csv_rows[CHOOSE i \in DOMAIN csv_rows : csv_rows[i].id = req[1].results[1]])

\* C27: the offline stage answers from the knowledge base, with source
\* 'offline', only if the top-ranked record has a relevance score above zero;
\* when nothing matches or every returned record scores zero, the
\* orchestrator goes on to the next stage.
C27_OfflineAnswerScoresAboveZero ==
    (/\ req # None
     /\ req[1].op \in {"smart_search", "offline_search"}
     /\ req[1].source = "offline") =>
        req[1].results # << >> /\ TopScore > 0

(***************************************************************************)
(* C4, C5, C7: what a search request answers and what it writes             *)
(***************************************************************************)
\* C4: in the offline_first strategy, whenever the knowledge base has a usable
\* result for the query, the answer returned is that offline result and neither
\* the online search nor the AI is called during the request.
C4_OfflineFirstAnswersFromKnowledgeBase ==
    (req # None /\ req[1].strategy = "offline_first" /\ req[1].offline_top # None) =>
        /\ req[1].response = req[1].offline_top
        /\ req[1].online_calls = 0
        /\ req[1].ai_calls = 0

C7_EmptyKnowledgeBaseFindsNothing ==
    (req # None /\ req[1].op = "search_offline_data" /\ req[1].rows = 0) =>
        /\ req[1].results = << >>
        /\ ~req[1].error_logged

\* The empty knowledge base was searched with a query of words in a category.
C7_Witness ==
    /\ req # None
    /\ req[1].op = "search_offline_data"
    /\ req[1].rows = 0
    /\ req[1].query = q_what_is_ai
    /\ req[1].category # None

(***************************************************************************)
(* cache_online_search and add_knowledge_entry (specification CacheSpec)    *)
(***************************************************************************)
\* The most records add_knowledge_entry adds in a behaviour of CacheSpec
MaxLearned == 1

PutQueries == {q_what_is_ai, q_What_is_AI}
PutResponses == {ShortResponse, LongResponse}
PutSources == {s_google, s_wikipedia}
CacheContents == {<<"a","i"," ","i","s"," ","s","m","a","r","t">>}

CacheInit ==
    /\ csv_rows = SeedCsv
    /\ db_rows = << >> /\ cache_rows = << >>
    /\ clock = StartTime
    /\ lock_owner = None /\ pc = "idle" /\ add_call = None
    /\ put_args = None /\ put_ret = None
    /\ ReqIdle /\ IntentIdle /\ RankIdle
    /\ menu_level = "main" /\ current_subject = None /\ current_topic = None
    /\ available_subjects = LoadSubjects(csv_rows)
    /\ available_topics = << >>
    /\ nav_result = None

cacheOther == <<reqVars, navVars, intentVars, rankVars>>

\* "remember ...", up to the call of add_knowledge_entry
Remember ==
    \E content \in CacheContents :
        /\ Len(db_rows) < MaxLearned
        /\ HandleRemember(content)
        /\ UNCHANGED <<csv_rows, db_rows, cache_rows, clock, lock_owner, put_args, put_ret,
                       cacheOther>>
AddEntry == AddKnowledgeEntry /\ UNCHANGED <<cache_rows, put_args, cacheOther>>
Put ==
    \E query \in PutQueries, response \in PutResponses, source \in PutSources :
        CacheOnlineSearch(query, response, source) /\ UNCHANGED cacheOther

CacheNext == Remember \/ AddEntry \/ Put

CacheSpec == CacheInit /\ [][CacheNext]_vars

(***************************************************************************)
(* C6, C8: one cache entry per query, and cache_online_search returning     *)
(***************************************************************************)
\* The normalized query: lower-cased and trimmed
NormalizedQuery(query) == Strip(Lower(query))

\* C6: after any sequence of cache_online_search calls the cache holds at most
\* one entry per normalized query (a second put of the same normalized query
\* adds no entry, it raises the access count of the one there).
C6_OneEntryPerNormalizedQuery ==
    \A i, j \in DOMAIN cache_rows :
        NormalizedQuery(cache_rows[i].query) = NormalizedQuery(cache_rows[j].query)
            => i = j

\* C8: every call of cache_online_search returns True or False: at any moment a
\* call that was made has returned one of them, or it has not returned yet and
\* its next step, add_knowledge_entry taking the lock, can be taken.
C8_CacheOnlineSearchReturns ==
    put_args # None =>
        \/ put_ret \in {Some("True"), Some("False")}
        \/ put_ret = None /\ ENABLED AddKnowledgeEntry

(***************************************************************************)
(* C16: get after put                                                       *)
(***************************************************************************)
\* C16: once cache_online_search(q, r, s) has returned True, get_search_cache(q)
\* returns an entry whose response is r, also when q had an entry with another
\* response before the call.
C16_GetReturnsLastPut ==
    (put_args # None /\ put_ret = Some("True")) =>
        LET got == GetSearchCache(cache_rows, put_args[1].query).hit
        IN  got # None /\ got[1].response = put_args[1].response

(***************************************************************************)
(* C17: which puts add a knowledge record                                   *)
(***************************************************************************)
\* The places of the knowledge records promoted from the last put: question the
\* query, answer the response, confidence 0.7, category from the keyword table
PromotedFromPut ==
    {i \in DOMAIN csv_rows :
        /\ csv_rows[i].question = put_args[1].query
        /\ csv_rows[i].answer = put_args[1].response
        /\ csv_rows[i].confidence = 70
        /\ csv_rows[i].category = PromotedCategory(put_args[1].query)}

\* C17: a put adds a knowledge record (question the query, answer the response,
\* confidence 0.7, category from the keyword table) if and only if the response
\* is longer than 100 characters, the query contains a trigger phrase and the
\* source is in the allow-list: after such a put the record is there, or the
\* call is still running and its add_knowledge_entry can proceed; after any
\* other put there is no such record.
C17_PromotesExactlyWhenHeuristicHolds ==
    put_args # None =>
        IF ShouldPromote(put_args[1].query, put_args[1].response, put_args[1].source)
        THEN \/ PromotedFromPut # {}
             \/ put_ret = None /\ ENABLED AddKnowledgeEntry
        ELSE PromotedFromPut = {}

(***************************************************************************)
(* cleanup_old_data (specification SweepSpec)                               *)
(***************************************************************************)
\* 24 * 60 * 60: timestamps and the clock of SweepSpec are in seconds
SecondsPerDay == 86400

\* Rows whose access_count is above this are kept whatever their age
KeptAccessCount == 5

\* A row survives when it is newer than the cutoff or was read often
KeptBySweepIfRecent(row, cutoff_date) == row.timestamp > cutoff_date

\* `if timestamp > cutoff_date or int(row['access_count']) > 5`: the row is kept
KeptBySweep(row, cutoff_date) ==
    row.timestamp > cutoff_date \/ row.access_count > KeptAccessCount

\* cutoff_date = now - days_old * 24 * 60 * 60
CutoffDate(now, days_old) == now - days_old * SecondsPerDay

\* cleanup_old_data(days_old): the cache file is rewritten with the rows kept,
\* in order; the knowledge base files are not opened; returns True.  The method
\* does not take _lock.
CleanupOldData(days_old) ==
    /\ pc = "idle"
    /\ cache_rows' =
         SelectRows(cache_rows,
                    {i \in DOMAIN cache_rows :
                        KeptBySweep(cache_rows[i], CutoffDate(clock, days_old))})
    /\ req' = Some([op |-> "cleanup_old_data", days_old |-> days_old, success |-> TRUE,
                    rows_before |-> Len(cache_rows)])
    /\ UNCHANGED <<csv_rows, db_rows, clock, lock_owner, pc, add_call, put_args, put_ret,
                   search_mode>>

\* The most rows of a cache file of SweepSpec
MaxSweepRows == 3

\* The time of the sweep: 40 days after the epoch of the model
SweepNow == 40 * SecondsPerDay

SweepDays == {0, 1, 30}

\* The ages of the cached rows: a second more, exactly and a second less than
\* one day, and just written
SweepTimestamps ==
    {SweepNow - SecondsPerDay - 1, SweepNow - SecondsPerDay,
     SweepNow - SecondsPerDay + 1, SweepNow}

SweepAccessCounts == {KeptAccessCount, KeptAccessCount + 1}

\* The i-th query put into the cache
SweepQuery(i) == <<"q">> \o Str(i)

\* The cache files of n rows put at the times and read as often as above
SweepCaches(n) ==
    {[i \in 1..n |->
        CacheRow(QueryHash(SweepQuery(i)), SweepQuery(i), ShortResponse, s_google,
                 ts[i], ac[i])] :
        ts \in [1..n -> SweepTimestamps], ac \in [1..n -> SweepAccessCounts]}

SweepInit ==
    /\ csv_rows = SeedCsv
    /\ db_rows = << >>
    /\ cache_rows \in UNION {SweepCaches(n) : n \in 0..MaxSweepRows}
    /\ clock = SweepNow
    /\ lock_owner = None /\ pc = "idle" /\ add_call = None
    /\ put_args = None /\ put_ret = None
    /\ ReqIdle /\ IntentIdle /\ RankIdle
    /\ menu_level = "main" /\ current_subject = None /\ current_topic = None
    /\ available_subjects = LoadSubjects(csv_rows)
    /\ available_topics = << >>
    /\ nav_result = None

Sweep == \E days_old \in SweepDays : CleanupOldData(days_old) /\ UNCHANGED specOther

SweepNext == Sweep

SweepSpec == SweepInit /\ [][SweepNext]_vars

(***************************************************************************)
(* C18: what the sweep removes                                              *)
(***************************************************************************)
\* The step is a call of cleanup_old_data
IsSweep == req' # None /\ req'[1].op = "cleanup_old_data"

\* The rows of the cache before the step without those at the places in removed
CacheWithout(removed) == SelectRows(cache_rows, DOMAIN cache_rows \ removed)

IsWordCharacter(c) == IsLower(c) \/ IsUpper(c) \/ IsDigit(c) \/ c = "_"

\* re.findall(r'\b\w+\b', text): the maximal runs of word characters, in order
WordRuns(text) ==
    LET F[i \in 0..Len(text)] ==
            IF i = 0 THEN [done |-> << >>, run |-> << >>]
            ELSE IF IsWordCharacter(text[i])
                 THEN [F[i-1] EXCEPT !.run = Append(@, text[i])]
                 ELSE [done |-> IF F[i-1].run = << >> THEN F[i-1].done
                                ELSE Append(F[i-1].done, F[i-1].run),
                       run |-> << >>]
        last == F[Len(text)]
    IN  IF last.run = << >> THEN last.done ELSE Append(last.done, last.run)

\* Words "longer than 3 chars" become keywords, and at most 10 of them
MeaningfulLength == 3
KeywordLimit == 10

\* list(set([w for w in words if len(w) > 3]))[:10]: the distinct long words in
\* whatever order the set yields them, cut to ten; every outcome
ExtractedKeywordLists(question, answer) ==
    LET words == WordRuns(Lower(question) \o <<" ">> \o Lower(answer))
        long == {w \in ToSet(words) : Len(w) > MeaningfulLength}
        n == IF Cardinality(long) < KeywordLimit THEN Cardinality(long) ELSE KeywordLimit
    IN  {ks \in [1..n -> long] : \A i, j \in 1..n : ks[i] = ks[j] => i = j}

s_user ==
    <<"u","s","e","r">>

\* add_to_knowledge_base(category, question, answer), up to add_knowledge_entry's
\* `with self._lock`: source "user", confidence 0.8
AddToKnowledgeBase(category, question, answer) ==
    /\ pc = "idle"
    /\ \E keywords \in ExtractedKeywordLists(question, answer) :
          CallAddKnowledgeEntry(category, question, answer, keywords, s_user,
                                DefaultConfidence, "add_to_knowledge_base")

\* The questions and answers given to add_to_knowledge_base: one-word and
\* two-word questions, an empty and a blank one, one no record mentions
RoundTripQuestions == {<<"p">>, <<"q"," ","p">>, <<"n","e","w","s","?">>, << >>, <<" ">>}
RoundTripAnswers == {<<"y">>, <<"l","o","n","g"," ","w","o","r","d">>}

\* The knowledge bases the round trip starts from: up to MaxRows - 1 records of
\* OrderStore, the sqlite rows that add_knowledge_entry gave them
RoundTripStores == {Take(OrderStore(k), n) : k \in {0, 1}, n \in 0..(MaxRows - 1)}

RoundTripInit ==
    /\ csv_rows \in RoundTripStores
    /\ db_rows = [i \in 1..Len(csv_rows) |-> 0]
    /\ cache_rows = << >>
    /\ clock = StartTime + OrderRows
    /\ lock_owner = None /\ pc = "idle" /\ add_call = None
    /\ put_args = None /\ put_ret = None
    /\ ReqIdle /\ NavIdle /\ IntentIdle /\ RankIdle

\* The most records a behaviour of RoundTripSpec adds
MaxAdded == 1

RoundTripAdd ==
    /\ Cardinality({i \in DOMAIN csv_rows : csv_rows[i].source = s_user}) < MaxAdded
    /\ req = None
    /\ \E question \in RoundTripQuestions, answer \in RoundTripAnswers :
          AddToKnowledgeBase(<<"a">>, question, answer)
    /\ UNCHANGED <<csv_rows, db_rows, cache_rows, clock, lock_owner, put_args, put_ret,
                   search_mode, req, specOther>>
RoundTripAddEntry ==
    /\ AddKnowledgeEntry
    /\ UNCHANGED <<cache_rows, put_args, search_mode, req, specOther>>
RoundTripSearch ==
    /\ req = None
    /\ \E query \in RoundTripQuestions : SearchOfflineDataCall(query, None)
    /\ UNCHANGED specOther

RoundTripNext == RoundTripAdd \/ RoundTripAddEntry \/ RoundTripSearch

RoundTripSpec == RoundTripInit /\ [][RoundTripNext]_vars

(***************************************************************************)
(* C24: what was added is found                                             *)
(***************************************************************************)
\* The places of the records add_to_knowledge_base had added, with this
\* question, when the last search ran
AddedPlaces(question) ==
    {i \in 1..req[1].rows : csv_rows[i].source = s_user /\ csv_rows[i].question = question}

\* C24: after add_to_knowledge_base(category, Q, A) has returned True,
\* search_offline_data(Q) returns a non-empty list that contains the record
\* with question Q and answer A, for every question text Q and whatever other
\* records the knowledge base holds.
C24_AddedRecordIsFound ==
    (req # None /\ req[1].op = "search_offline_data") =>
        \A i \in AddedPlaces(req[1].query) :
            \E k \in DOMAIN req[1].results : req[1].results[k] = csv_rows[i].id

(***************************************************************************)
(* OfflineConversationAI: the intent of an utterance                        *)
(* (specification IntentSpec)                                               *)
(***************************************************************************)
\* The intents in the order of the dictionary of _analyze_intent
IntentOrder ==
    <<"greeting", "question", "help_request", "academic_query",
      "math_problem", "study_help", "personal", "gratitude",
      "goodbye", "emotional", "clarification", "encouragement_needed">>

\* The keyword lists of _analyze_intent, lines 89-102
IntentKeywords ==
    [greeting |->
        {<<"h","e","l","l","o">>, <<"h","i">>, <<"h","e","y">>,
         <<"g","o","o","d"," ","m","o","r","n","i","n","g">>,
         <<"g","o","o","d"," ","a","f","t","e","r","n","o","o","n">>,
         <<"g","o","o","d"," ","e","v","e","n","i","n","g">>},
     question |->
        {<<"w","h","a","t">>, <<"h","o","w">>, <<"w","h","e","n">>, <<"w","h","e","r","e">>,
         <<"w","h","y">>, <<"w","h","o">>, <<"w","h","i","c","h">>,
         <<"c","a","n"," ","y","o","u"," ","e","x","p","l","a","i","n">>},
     help_request |->
        {<<"h","e","l","p">>, <<"a","s","s","i","s","t">>, <<"s","u","p","p","o","r","t">>,
         <<"g","u","i","d","e">>, <<"s","h","o","w"," ","m","e">>,
         <<"t","e","a","c","h"," ","m","e">>},
     academic_query |->
        {<<"e","x","p","l","a","i","n">>, <<"d","e","f","i","n","e">>,
         <<"m","e","a","n","i","n","g"," ","o","f">>,
         <<"t","e","l","l"," ","m","e"," ","a","b","o","u","t">>,
         <<"w","h","a","t"," ","i","s">>, <<"h","o","w"," ","d","o","e","s">>},
     math_problem |->
        {<<"s","o","l","v","e">>, <<"c","a","l","c","u","l","a","t","e">>,
         <<"f","o","r","m","u","l","a">>, <<"e","q","u","a","t","i","o","n">>,
         <<"m","a","t","h">>, <<"m","a","t","h","e","m","a","t","i","c","s">>},
     study_help |->
        {<<"s","t","u","d","y">>, <<"l","e","a","r","n">>,
         <<"p","r","a","c","t","i","c","e">>, <<"q","u","i","z">>, <<"t","e","s","t">>,
         <<"e","x","a","m">>, <<"h","o","m","e","w","o","r","k">>},
     personal |->
        {<<"I"," ","a","m">>, <<"m","y"," ","n","a","m","e"," ","i","s">>,
         <<"I"," ","l","i","k","e">>, <<"I"," ","p","r","e","f","e","r">>,
         <<"I"," ","n","e","e","d">>, <<"I"," ","w","a","n","t">>},
     gratitude |->
        {<<"t","h","a","n","k">>, <<"t","h","a","n","k","s">>,
         <<"a","p","p","r","e","c","i","a","t","e">>, <<"g","r","a","t","e","f","u","l">>},
     goodbye |->
        {<<"b","y","e">>, <<"g","o","o","d","b","y","e">>, <<"s","e","e"," ","y","o","u">>,
         <<"f","a","r","e","w","e","l","l">>, <<"e","x","i","t">>, <<"q","u","i","t">>},
     emotional |->
        {<<"f","r","u","s","t","r","a","t","e","d">>, <<"c","o","n","f","u","s","e","d">>,
         <<"w","o","r","r","i","e","d">>, <<"h","a","p","p","y">>,
         <<"e","x","c","i","t","e","d">>, <<"s","a","d">>, <<"a","n","g","r","y">>},
     clarification |->
        {<<"r","e","p","e","a","t">>, <<"a","g","a","i","n">>,
         <<"c","l","a","r","i","f","y">>,
         <<"e","x","p","l","a","i","n"," ","a","g","a","i","n">>,
         <<"I"," ","d","o","n","'","t"," ","u","n","d","e","r","s","t","a","n","d">>},
     encouragement_needed |->
        {<<"d","i","f","f","i","c","u","l","t">>, <<"h","a","r","d">>,
         <<"s","t","r","u","g","g","l","i","n","g">>,
         <<"c","a","n","'","t"," ","u","n","d","e","r","s","t","a","n","d">>,
         <<"g","i","v","e"," ","u","p">>}]

\* _analyze_intent(user_input): the first intent of the dictionary with a
\* keyword that occurs in user_input.lower(), or 'general'
AnalyzeIntent(user_input) ==
    LET input_lower == Lower(user_input)
        detected_intents ==
                {k \in DOMAIN IntentOrder :
                    \E keyword \in IntentKeywords[IntentOrder[k]] :
                        IsSubstr(keyword, input_lower)}
    IN  IF detected_intents = {} THEN "general"
        ELSE IntentOrder[CHOOSE k \in detected_intents : \A l \in detected_intents : k <= l]

\* _generate_response(user_input, intent): the handler the intent is given to
HandlerOf(intent_name) ==
    CASE intent_name = "greeting" -> "_handle_greeting"
      [] intent_name \in {"question", "academic_query"} -> "_handle_academic_question"
      [] intent_name = "help_request" -> "_handle_help_request"
      [] intent_name = "math_problem" -> "_handle_math_problem"
      [] intent_name = "study_help" -> "_handle_study_help"
      [] intent_name = "personal" -> "_handle_personal_info"
      [] intent_name = "gratitude" -> "_handle_gratitude"
      [] intent_name = "goodbye" -> "_handle_goodbye"
      [] intent_name = "emotional" -> "_handle_emotional_support"
      [] intent_name = "clarification" -> "_handle_clarification_request"
      [] intent_name = "encouragement_needed" -> "_handle_encouragement"
      [] OTHER -> "_handle_general_query"

\* offline_academic.offline_data, flattened in dictionary order: of its 229
\* entries the two that the utterances of the model find (every other query of
\* the model occurs in no topic and no text of the dictionary)
OfflineData ==
    <<[path |-> <<<<"b","a","s","i","c">>,
      <<"m","a","t","h","e","m","a","t","i","c","s">>,
      <<"a","d","d","i","t","i","o","n">>>>,
       data |->
          <<"A","d","d","i","t","i","o","n"," ","i","s"," ","t","h","e"," ","p","r","o","c",
            "e","s","s"," ","o","f"," ","f","i","n","d","i","n","g"," ","t","h","e"," ","t",
            "o","t","a","l"," ","o","r"," ","s","u","m"," ","b","y"," ","c","o","m","b","i",
            "n","i","n","g"," ","t","w","o"," ","o","r"," ","m","o","r","e"," ","n","u","m",
            "b","e","r","s","."," ","F","o","r"," ","e","x","a","m","p","l","e",","," ","2",
            " ","+"," ","3"," ","="," ","5","."," ","A","d","d","i","t","i","o","n"," ","i",
            "s"," ","u","s","e","d"," ","i","n"," ","d","a","i","l","y"," ","l","i","f","e",
            " ","w","h","e","n"," ","c","o","u","n","t","i","n","g"," ","m","o","n","e","y",
            " ","o","r"," ","o","b","j","e","c","t","s","."," ","F","u","r","t","h","e","r",
            " ","r","e","a","d","i","n","g",":"," ","h","t","t","p","s",":","/","/","w","w",
            "w",".","k","h","a","n","a","c","a","d","e","m","y",".","o","r","g","/","m","a",
            "t","h","/","a","r","i","t","h","m","e","t","i","c","/","a","r","i","t","h","-",
            "r","e","v","i","e","w","-","a","d","d","-","s","u","b","t","r","a","c","t",";",
            " ","B","o","o","k",":"," ","'","M","a","t","h","e","m","a","t","i","c","s"," ",
            "f","o","r"," ","E","l","e","m","e","n","t","a","r","y"," ","S","c","h","o","o",
            "l","'"," ","b","y"," ","P","e","a","r","s","o","n",".">>],
      [path |-> <<<<"b","a","s","i","c">>,
      <<"s","c","i","e","n","c","e">>,
      <<"g","r","a","v","i","t","y">>>>,
       data |->
          <<"G","r","a","v","i","t","y"," ","i","s"," ","t","h","e"," ","f","o","r","c","e",
            " ","t","h","a","t"," ","p","u","l","l","s"," ","t","h","i","n","g","s"," ","t",
            "o","w","a","r","d"," ","t","h","e"," ","e","a","r","t","h","."," ","I","t"," ",
            "k","e","e","p","s"," ","u","s"," ","o","n"," ","t","h","e"," ","g","r","o","u",
            "n","d"," ","a","n","d"," ","m","a","k","e","s"," ","t","h","i","n","g","s"," ",
            "f","a","l","l","."," ","E","x","a","m","p","l","e",":"," ","A","n"," ","a","p",
            "p","l","e"," ","f","a","l","l","i","n","g"," ","f","r","o","m"," ","a"," ","t",
            "r","e","e","."," ","F","u","r","t","h","e","r"," ","r","e","a","d","i","n","g",
            ":"," ","h","t","t","p","s",":","/","/","s","p","a","c","e","p","l","a","c","e",
            ".","n","a","s","a",".","g","o","v","/","w","h","a","t","-","i","s","-","g","r",
            "a","v","i","t","y","/","e","n","/",";"," ","B","o","o","k",":"," ","'","G","r",
            "a","v","i","t","y"," ","I","s"," ","a"," ","M","y","s","t","e","r","y","'"," ",
            "b","y"," ","F","r","a","n","k","l","y","n"," ","M","."," ","B","r","a","n","l",
            "e","y",".">>]>>

s_no_offline_data_found ==
    <<"N","o"," ","o","f","f","l","i","n","e"," ","d","a","t","a"," ","f","o","u","n","d"," ",
      "f","o","r"," ","y","o","u","r"," ","q","u","e","r","y",".">>

\* The text offline_search returns for an entry: "[Level > Subject] Topic: data"
FormatEntry(e) ==
    LET path == e.path
    IN  IF Len(path) >= 3
        THEN <<"[">> \o Title(path[1]) \o <<" ",">"," ">> \o Title(path[2]) \o <<"]"," ">>
               \o Title(path[3]) \o <<":"," ">> \o e.data
        ELSE IF Len(path) = 2
        THEN <<"[">> \o Title(path[1]) \o <<"]"," ">> \o Title(path[2]) \o <<":"," ">> \o e.data
        ELSE Title(path[Len(path)]) \o <<":"," ">> \o e.data

\* offline_search(query): the first entry whose topic or text contains the
\* lower-cased query, formatted, or the "No offline data" sentence
offline_search(query) ==
    LET hits == {k \in DOMAIN OfflineData :
                    \/ IsSubstr(Lower(query), Lower(OfflineData[k].path[Len(OfflineData[k].path)]))
                    \/ IsSubstr(Lower(query), Lower(OfflineData[k].data))}
    IN  IF hits = {} THEN s_no_offline_data_found
        ELSE FormatEntry(OfflineData[CHOOSE k \in hits : \A l \in hits : k <= l])

\* The sentence the handlers look for in what offline_search returned
s_No_information_found ==
    <<"N","o"," ","i","n","f","o","r","m","a","t","i","o","n"," ","f","o","u","n","d">>

\* str.replace(old, new) for a non-empty old: every occurrence, from the left,
\* without overlap; ReplaceFrom gives the text from place `from` on
RECURSIVE ReplaceFrom(_, _, _, _)
ReplaceFrom(s, old, new, from) ==
    LET at == {i \in from..(Len(s) - Len(old) + 1) : SubSeq(s, i, i + Len(old) - 1) = old}
        e == CHOOSE i \in at : \A j \in at : i <= j
    IN  IF at = {} THEN SubSeq(s, from, Len(s))
        ELSE SubSeq(s, from, e - 1) \o new \o ReplaceFrom(s, old, new, e + Len(old))
Replace(s, old, new) == ReplaceFrom(s, old, new, 1)

\* str.capitalize()
Capitalize(s) ==
    [i \in 1..Len(s) |-> IF i = 1 THEN UpperChar(s[i]) ELSE LowerChar(s[i])]

\* s.split(sep)[1] when sep occurs in s: the text between the first occurrence
\* of sep and the next one
SecondPiece(s, sep) ==
    LET At(t) == {i \in 1..(Len(t) - Len(sep) + 1) : SubSeq(t, i, i + Len(sep) - 1) = sep}
        First(t) == CHOOSE i \in At(t) : \A j \in At(t) : i <= j
        rest == SubSeq(s, First(s) + Len(sep), Len(s))
    IN  IF At(rest) = {} THEN rest ELSE SubSeq(rest, 1, First(rest) - 1)

\* What a handler returns and the user_context it leaves
Outcome(text, context) == [response |-> text, user_context |-> context]

\* _handle_greeting: one of four greetings, with the name put in when known
greetings ==
    {<<"H","e","l","l","o","!"," ","I","'","m"," ","A","I","V","I",","," ","y","o","u","r",
       " ","A","I"," ","a","s","s","i","s","t","a","n","t","."," ","H","o","w"," ","c","a",
       "n"," ","I"," ","h","e","l","p"," ","y","o","u"," ","t","o","d","a","y","?">>,
     <<"H","i"," ","t","h","e","r","e","!"," ","I","'","m"," ","h","e","r","e"," ","t","o",
       " ","h","e","l","p"," ","w","i","t","h"," ","y","o","u","r"," ","s","t","u","d","i",
       "e","s"," ","a","n","d"," ","q","u","e","s","t","i","o","n","s","."," ","W","h","a",
       "t"," ","w","o","u","l","d"," ","y","o","u"," ","l","i","k","e"," ","t","o"," ","k",
       "n","o","w","?">>,
     <<"G","o","o","d"," ","t","o"," ","s","e","e"," ","y","o","u","!"," ","I","'","m"," ",
       "r","e","a","d","y"," ","t","o"," ","a","s","s","i","s","t"," ","w","i","t","h"," ",
       "a","c","a","d","e","m","i","c","s",","," ","a","c","c","e","s","s","i","b","i","l",
       "i","t","y",","," ","o","r"," ","a","n","y"," ","q","u","e","s","t","i","o","n","s",
       " ","y","o","u"," ","h","a","v","e",".">>,
     <<"H","e","l","l","o","!"," ","W","e","l","c","o","m","e"," ","t","o"," ","A","I","V",
       "I","."," ","I"," ","c","a","n"," ","h","e","l","p"," ","w","i","t","h"," ","s","t",
       "u","d","i","e","s",","," ","a","n","s","w","e","r"," ","q","u","e","s","t","i","o",
       "n","s",","," ","a","n","d"," ","a","s","s","i","s","t"," ","w","i","t","h"," ","a",
       "c","c","e","s","s","i","b","i","l","i","t","y"," ","n","e","e","d","s",".">>}
HandleGreeting(context) ==
    {Outcome(IF context.name = None THEN greeting
             ELSE Replace(Replace(greeting, <<"H","e","l","l","o","!">>,
                                  <<"H","e","l","l","o"," ">> \o context.name[1] \o <<"!">>),
                          <<"H","i"," ","t","h","e","r","e","!">>,
                          <<"H","i"," ">> \o context.name[1] \o <<"!">>),
             context) : greeting \in greetings}

\* _handle_academic_question: the words that are no question word and longer
\* than two characters are looked up together, then (if "No information found"
\* is in the answer) one by one until an answer without that sentence
question_words ==
    {<<"w","h","a","t">>,
     <<"h","o","w">>,
     <<"w","h","e","n">>,
     <<"w","h","e","r","e">>,
     <<"w","h","y">>,
     <<"w","h","o">>,
     <<"w","h","i","c","h">>,
     <<"d","e","f","i","n","e">>,
     <<"e","x","p","l","a","i","n">>}
ContentWords(user_input) ==
    LET Kept(word) == word \notin question_words /\ Len(word) > 2
    IN  SelectSeq(SplitWs(Lower(user_input)), Kept)
AcademicResponse(content_words) ==
    LET first == offline_search(Join(content_words, " "))
        found == {k \in DOMAIN content_words :
                     ~IsSubstr(s_No_information_found, offline_search(content_words[k]))}
    IN  IF ~IsSubstr(s_No_information_found, first) \/ content_words = << >> THEN first
        ELSE IF found = {} THEN offline_search(content_words[Len(content_words)])
        ELSE offline_search(content_words[CHOOSE k \in found : \A l \in found : k <= l])
s_I_dont_have_specific_information ==
    <<"I"," ","d","o","n","'","t"," ","h","a","v","e"," ","s","p","e","c","i","f","i","c"," ",
      "i","n","f","o","r","m","a","t","i","o","n"," ","a","b","o","u","t"," ","'">>
s_in_my_offline_database ==
    <<"'"," ","i","n"," ","m","y"," ","o","f","f","l","i","n","e"," ","d","a","t","a","b","a",
      "s","e","."," ","H","o","w","e","v","e","r",","," ","I"," ","c","a","n"," ","h","e","l",
      "p"," ","y","o","u"," ","w","i","t","h"," ","o","t","h","e","r"," ","a","c","a","d","e",
      "m","i","c"," ","t","o","p","i","c","s"," ","l","i","k","e"," ","m","a","t","h","e","m",
      "a","t","i","c","s",","," ","E","n","g","l","i","s","h",","," ","s","c","i","e","n","c",
      "e",","," ","o","r"," ","h","i","s","t","o","r","y","."," ","W","h","a","t"," ","s","p",
      "e","c","i","f","i","c"," ","s","u","b","j","e","c","t"," ","a","r","e","a"," ","i","n",
      "t","e","r","e","s","t","s"," ","y","o","u","?">>
s_Great_question ==
    <<"G","r","e","a","t"," ","q","u","e","s","t","i","o","n","!"," ">>
s_Would_you_like_me_to_explain ==
    <<"\n","\n","W","o","u","l","d"," ","y","o","u"," ","l","i","k","e"," ","m","e"," ","t",
      "o"," ","e","x","p","l","a","i","n"," ","a","n","y","t","h","i","n","g"," ","f","u","r",
      "t","h","e","r"," ","o","r"," ","d","o"," ","y","o","u"," ","h","a","v","e"," ","r","e",
      "l","a","t","e","d"," ","q","u","e","s","t","i","o","n","s","?">>
HandleAcademicQuestion(user_input, context) ==
    LET search_terms == Join(ContentWords(user_input), " ")
        academic_response == AcademicResponse(ContentWords(user_input))
    IN  {Outcome(IF IsSubstr(s_No_information_found, academic_response)
                 THEN s_I_dont_have_specific_information \o search_terms
                        \o s_in_my_offline_database
                 ELSE s_Great_question \o academic_response \o s_Would_you_like_me_to_explain,
                 [context EXCEPT !.current_topic = Some(search_terms),
                                 !.questions_asked = @ + 1])}

\* _handle_help_request
help_responses ==
    {<<"I","'","m"," ","h","e","r","e"," ","t","o"," ","h","e","l","p","!"," ","I"," ","c",
       "a","n"," ","a","s","s","i","s","t"," ","w","i","t","h"," ","a","c","a","d","e","m",
       "i","c"," ","q","u","e","s","t","i","o","n","s",","," ","a","c","c","e","s","s","i",
       "b","i","l","i","t","y"," ","f","e","a","t","u","r","e","s",","," ","s","t","u","d",
       "y"," ","p","l","a","n","n","i","n","g",","," ","a","n","d"," ","m","o","r","e",".",
       " ","W","h","a","t"," ","s","p","e","c","i","f","i","c"," ","a","r","e","a"," ","d",
       "o"," ","y","o","u"," ","n","e","e","d"," ","h","e","l","p"," ","w","i","t","h","?">>,
     <<"O","f"," ","c","o","u","r","s","e","!"," ","I"," ","c","a","n"," ","h","e","l","p",
       " ","w","i","t","h"," ","s","t","u","d","y","i","n","g",","," ","a","n","s","w","e",
       "r","i","n","g"," ","q","u","e","s","t","i","o","n","s",","," ","r","e","a","d","i",
       "n","g"," ","t","e","x","t",","," ","c","o","n","v","e","r","t","i","n","g"," ","t",
       "o"," ","B","r","a","i","l","l","e",","," ","s","o","l","v","i","n","g"," ","m","a",
       "t","h"," ","p","r","o","b","l","e","m","s",","," ","a","n","d"," ","m","a","n","y",
       " ","o","t","h","e","r"," ","t","a","s","k","s","."," ","W","h","a","t"," ","w","o",
       "u","l","d"," ","y","o","u"," ","l","i","k","e"," ","t","o"," ","d","o","?">>,
     <<"I","'","d"," ","b","e"," ","h","a","p","p","y"," ","t","o"," ","h","e","l","p","!",
       " ","I"," ","h","a","v","e"," ","a","c","c","e","s","s"," ","t","o"," ","a","c","a",
       "d","e","m","i","c"," ","i","n","f","o","r","m","a","t","i","o","n"," ","i","n"," ",
       "m","a","t","h",","," ","s","c","i","e","n","c","e",","," ","E","n","g","l","i","s",
       "h",","," ","a","n","d"," ","h","i","s","t","o","r","y","."," ","I"," ","c","a","n",
       " ","a","l","s","o"," ","h","e","l","p"," ","w","i","t","h"," ","a","c","c","e","s",
       "s","i","b","i","l","i","t","y"," ","n","e","e","d","s","."," ","W","h","a","t"," ",
       "i","n","t","e","r","e","s","t","s"," ","y","o","u","?">>,
     <<"A","b","s","o","l","u","t","e","l","y","!"," ","I","'","m"," ","d","e","s","i","g",
       "n","e","d"," ","t","o"," ","h","e","l","p"," ","w","i","t","h"," ","e","d","u","c",
       "a","t","i","o","n"," ","a","n","d"," ","a","c","c","e","s","s","i","b","i","l","i",
       "t","y","."," ","I"," ","c","a","n"," ","e","x","p","l","a","i","n"," ","c","o","n",
       "c","e","p","t","s",","," ","h","e","l","p"," ","w","i","t","h"," ","h","o","m","e",
       "w","o","r","k",","," ","r","e","a","d"," ","t","e","x","t"," ","a","l","o","u","d",
       ","," ","a","n","d"," ","m","u","c","h"," ","m","o","r","e","."," ","H","o","w"," ",
       "c","a","n"," ","I"," ","a","s","s","i","s","t"," ","y","o","u"," ","t","o","d","a",
       "y","?">>}
HandleHelpRequest(context) == {Outcome(text, context) : text \in help_responses}

\* _handle_math_problem: an operator in the input asks for the problem; without
\* one the input is looked up
MathOperators ==
    {<<"+">>,
     <<"-">>,
     <<"*">>,
     <<"/">>,
     <<"=">>,
     <<"p","l","u","s">>,
     <<"m","i","n","u","s">>,
     <<"t","i","m","e","s">>,
     <<"d","i","v","i","d","e","d">>}
s_I_can_help_with_math_problems ==
    <<"I"," ","c","a","n"," ","h","e","l","p"," ","w","i","t","h"," ","m","a","t","h"," ","p",
      "r","o","b","l","e","m","s","!"," ","F","o","r"," ","c","o","m","p","l","e","x"," ","c",
      "a","l","c","u","l","a","t","i","o","n","s",","," ","y","o","u"," ","m","i","g","h","t",
      " ","w","a","n","t"," ","t","o"," ","u","s","e"," ","t","h","e"," ","m","a","t","h"," ",
      "s","o","l","v","e","r"," ","f","e","a","t","u","r","e","."," ","C","o","u","l","d"," ",
      "y","o","u"," ","s","t","a","t","e"," ","t","h","e"," ","p","r","o","b","l","e","m"," ",
      "c","l","e","a","r","l","y","?"," ","F","o","r"," ","e","x","a","m","p","l","e",":"," ",
      "'","s","o","l","v","e"," ","2"," ","p","l","u","s"," ","3","'"," ","o","r"," ","'","w",
      "h","a","t"," ","i","s"," ","1","5"," ","d","i","v","i","d","e","d"," ","b","y"," ","3",
      "'","?">>
s_Heres_what_I_know ==
    <<"H","e","r","e","'","s"," ","w","h","a","t"," ","I"," ","k","n","o","w"," ","a","b","o",
      "u","t"," ","t","h","a","t",":"," ">>
s_I_can_help_with_various_math_topics ==
    <<"I"," ","c","a","n"," ","h","e","l","p"," ","w","i","t","h"," ","v","a","r","i","o","u",
      "s"," ","m","a","t","h"," ","t","o","p","i","c","s"," ","i","n","c","l","u","d","i","n",
      "g"," ","a","r","i","t","h","m","e","t","i","c",","," ","a","l","g","e","b","r","a",",",
      " ","g","e","o","m","e","t","r","y",","," ","a","n","d"," ","m","o","r","e","."," ","W",
      "h","a","t"," ","s","p","e","c","i","f","i","c"," ","m","a","t","h"," ","c","o","n","c",
      "e","p","t"," ","w","o","u","l","d"," ","y","o","u"," ","l","i","k","e"," ","t","o"," ",
      "l","e","a","r","n"," ","a","b","o","u","t","?">>
HandleMathProblem(user_input, context) ==
    LET math_response == offline_search(user_input)
    IN  {Outcome(IF \E op \in MathOperators : IsSubstr(op, user_input)
                 THEN s_I_can_help_with_math_problems
                 ELSE IF ~IsSubstr(s_No_information_found, math_response)
                 THEN s_Heres_what_I_know \o math_response
                 ELSE s_I_can_help_with_various_math_topics,
                 context)}

\* _handle_study_help: a tip and (personality_traits['encouraging'] is 0.8) an
\* encouragement
study_tips ==
    {<<"G","r","e","a","t"," ","t","h","a","t"," ","y","o","u","'","r","e"," ","f","o","c",
       "u","s","i","n","g"," ","o","n"," ","s","t","u","d","y","i","n","g","!"," ","I"," ",
       "c","a","n"," ","h","e","l","p"," ","y","o","u"," ","w","i","t","h"," ","s","p","e",
       "c","i","f","i","c"," ","s","u","b","j","e","c","t","s",","," ","c","r","e","a","t",
       "e"," ","s","t","u","d","y"," ","s","c","h","e","d","u","l","e","s",","," ","o","r",
       " ","q","u","i","z"," ","y","o","u"," ","o","n"," ","t","o","p","i","c","s","."," ",
       "W","h","a","t"," ","s","u","b","j","e","c","t"," ","a","r","e"," ","y","o","u"," ",
       "w","o","r","k","i","n","g"," ","o","n","?">>,
     <<"I","'","m"," ","h","e","r","e"," ","t","o"," ","s","u","p","p","o","r","t"," ","y",
       "o","u","r"," ","s","t","u","d","i","e","s","!"," ","I"," ","c","a","n"," ","e","x",
       "p","l","a","i","n"," ","c","o","n","c","e","p","t","s",","," ","h","e","l","p"," ",
       "w","i","t","h"," ","h","o","m","e","w","o","r","k",","," ","o","r"," ","c","r","e",
       "a","t","e"," ","p","r","a","c","t","i","c","e"," ","q","u","e","s","t","i","o","n",
       "s","."," ","W","h","a","t"," ","w","o","u","l","d"," ","b","e"," ","m","o","s","t",
       " ","h","e","l","p","f","u","l"," ","r","i","g","h","t"," ","n","o","w","?">>,
     <<"S","t","u","d","y"," ","t","i","m","e"," ","i","s"," ","i","m","p","o","r","t","a",
       "n","t","!"," ","I"," ","c","a","n"," ","a","s","s","i","s","t"," ","w","i","t","h",
       " ","u","n","d","e","r","s","t","a","n","d","i","n","g"," ","d","i","f","f","i","c",
       "u","l","t"," ","c","o","n","c","e","p","t","s",","," ","o","r","g","a","n","i","z",
       "i","n","g"," ","y","o","u","r"," ","s","t","u","d","y"," ","s","c","h","e","d","u",
       "l","e",","," ","o","r"," ","p","r","o","v","i","d","i","n","g"," ","e","x","p","l",
       "a","n","a","t","i","o","n","s","."," ","W","h","a","t","'","s"," ","y","o","u","r",
       " ","c","u","r","r","e","n","t"," ","f","o","c","u","s","?">>,
     <<"E","x","c","e","l","l","e","n","t","!"," ","L","e","a","r","n","i","n","g"," ","i",
       "s"," ","a"," ","j","o","u","r","n","e","y","."," ","I"," ","c","a","n"," ","h","e",
       "l","p"," ","b","r","e","a","k"," ","d","o","w","n"," ","c","o","m","p","l","e","x",
       " ","t","o","p","i","c","s",","," ","p","r","o","v","i","d","e"," ","e","x","a","m",
       "p","l","e","s",","," ","o","r"," ","q","u","i","z"," ","y","o","u","."," ","W","h",
       "a","t"," ","s","u","b","j","e","c","t"," ","o","r"," ","t","o","p","i","c"," ","a",
       "r","e"," ","y","o","u"," ","s","t","u","d","y","i","n","g","?">>}
study_encouragements ==
    {<<" ","Y","o","u","'","r","e"," ","d","o","i","n","g"," ","g","r","e","a","t"," ","b",
       "y"," ","s","e","e","k","i","n","g"," ","h","e","l","p","!">>,
     <<" ","K","e","e","p"," ","u","p"," ","t","h","e"," ","e","x","c","e","l","l","e","n",
       "t"," ","w","o","r","k","!">>,
     <<" ","I"," ","b","e","l","i","e","v","e"," ","i","n"," ","y","o","u","r"," ","a","b",
       "i","l","i","t","y"," ","t","o"," ","l","e","a","r","n"," ","t","h","i","s","!">>,
     <<" ","E","v","e","r","y"," ","q","u","e","s","t","i","o","n"," ","y","o","u"," ","a",
       "s","k"," ","h","e","l","p","s"," ","y","o","u"," ","l","e","a","r","n"," ","m","o",
       "r","e","!">>}
HandleStudyHelp(context) ==
    {Outcome(tip \o more, context) : tip \in study_tips, more \in study_encouragements}

\* _handle_personal_info: "my name is X" stores X capitalised
s_my_name_is ==
    <<"m","y"," ","n","a","m","e"," ","i","s">>
s_Nice_to_meet_you ==
    <<"N","i","c","e"," ","t","o"," ","m","e","e","t"," ","y","o","u",","," ">>
s_Im_AIVI ==
    <<"!"," ","I","'","m"," ","A","I","V","I",","," ","a","n","d"," ","I","'","m"," ","h","e",
      "r","e"," ","t","o"," ","h","e","l","p"," ","w","i","t","h"," ","y","o","u","r"," ","s",
      "t","u","d","i","e","s"," ","a","n","d"," ","a","c","c","e","s","s","i","b","i","l","i",
      "t","y"," ","n","e","e","d","s","."," ","W","h","a","t"," ","w","o","u","l","d"," ","y",
      "o","u"," ","l","i","k","e"," ","t","o"," ","w","o","r","k"," ","o","n"," ","t","o","d",
      "a","y","?">>
s_Thats_great_to_know ==
    <<"T","h","a","t","'","s"," ","g","r","e","a","t"," ","t","o"," ","k","n","o","w","!"," ",
      "U","n","d","e","r","s","t","a","n","d","i","n","g"," ","y","o","u","r"," ","p","r","e",
      "f","e","r","e","n","c","e","s"," ","h","e","l","p","s"," ","m","e"," ","a","s","s","i",
      "s","t"," ","y","o","u"," ","b","e","t","t","e","r","."," ","H","o","w"," ","c","a","n",
      " ","I"," ","h","e","l","p"," ","y","o","u"," ","t","o","d","a","y","?">>
s_I_understand_let_me_know ==
    <<"I"," ","u","n","d","e","r","s","t","a","n","d","."," ","L","e","t"," ","m","e"," ","k",
      "n","o","w"," ","s","p","e","c","i","f","i","c","a","l","l","y"," ","w","h","a","t"," ",
      "y","o","u"," ","n","e","e","d"," ","h","e","l","p"," ","w","i","t","h",","," ","a","n",
      "d"," ","I","'","l","l"," ","d","o"," ","m","y"," ","b","e","s","t"," ","t","o"," ","a",
      "s","s","i","s","t"," ","y","o","u",".">>
s_Thank_you_for_sharing ==
    <<"T","h","a","n","k"," ","y","o","u"," ","f","o","r"," ","s","h","a","r","i","n","g"," ",
      "t","h","a","t"," ","w","i","t","h"," ","m","e","."," ","H","o","w"," ","c","a","n"," ",
      "I"," ","h","e","l","p"," ","y","o","u"," ","t","o","d","a","y","?">>
HandlePersonalInfo(user_input, context) ==
    LET input_lower == Lower(user_input)
        name_part == Strip(SecondPiece(input_lower, s_my_name_is))
        name == Capitalize(SplitWs(name_part)[1])
        Has(text) == IsSubstr(text, input_lower)
    IN  IF Has(s_my_name_is) /\ name_part # << >>
        THEN {Outcome(s_Nice_to_meet_you \o name \o s_Im_AIVI,
                      [context EXCEPT !.name = Some(name)])}
        ELSE IF Has(<<"i"," ","l","i","k","e">>) \/ Has(<<"i"," ","p","r","e","f","e","r">>)
        THEN {Outcome(s_Thats_great_to_know, context)}
        ELSE IF Has(<<"i"," ","n","e","e","d">>) \/ Has(<<"i"," ","w","a","n","t">>)
        THEN {Outcome(s_I_understand_let_me_know, context)}
        ELSE {Outcome(s_Thank_you_for_sharing, context)}

\* _handle_gratitude
gratitude_responses ==
    {<<"Y","o","u","'","r","e"," ","v","e","r","y"," ","w","e","l","c","o","m","e","!"," ",
       "I","'","m"," ","h","a","p","p","y"," ","t","o"," ","h","e","l","p"," ","a","n","y",
       "t","i","m","e",".">>,
     <<"M","y"," ","p","l","e","a","s","u","r","e","!"," ","F","e","e","l"," ","f","r","e",
       "e"," ","t","o"," ","a","s","k"," ","i","f"," ","y","o","u"," ","h","a","v","e"," ",
       "m","o","r","e"," ","q","u","e","s","t","i","o","n","s",".">>,
     <<"G","l","a","d"," ","I"," ","c","o","u","l","d"," ","h","e","l","p","!"," ","I","s",
       " ","t","h","e","r","e"," ","a","n","y","t","h","i","n","g"," ","e","l","s","e"," ",
       "y","o","u","'","d"," ","l","i","k","e"," ","t","o"," ","k","n","o","w","?">>,
     <<"Y","o","u","'","r","e"," ","w","e","l","c","o","m","e","!"," ","I","'","m"," ","h",
       "e","r","e"," ","w","h","e","n","e","v","e","r"," ","y","o","u"," ","n","e","e","d",
       " ","a","s","s","i","s","t","a","n","c","e",".">>,
     <<"H","a","p","p","y"," ","t","o"," ","h","e","l","p","!"," ","D","o","n","'","t"," ",
       "h","e","s","i","t","a","t","e"," ","t","o"," ","a","s","k"," ","i","f"," ","y","o",
       "u"," ","n","e","e","d"," ","a","n","y","t","h","i","n","g"," ","e","l","s","e",".">>}
HandleGratitude(context) == {Outcome(text, context) : text \in gratitude_responses}

\* _handle_goodbye: one of four goodbyes, with the name put in when known
goodbyes ==
    {<<"G","o","o","d","b","y","e","!"," ","F","e","e","l"," ","f","r","e","e"," ","t","o",
       " ","c","o","m","e"," ","b","a","c","k"," ","a","n","y","t","i","m","e"," ","y","o",
       "u"," ","n","e","e","d"," ","h","e","l","p"," ","w","i","t","h"," ","s","t","u","d",
       "i","e","s"," ","o","r"," ","h","a","v","e"," ","q","u","e","s","t","i","o","n","s",
       ".">>,
     <<"S","e","e"," ","y","o","u"," ","l","a","t","e","r","!"," ","R","e","m","e","m","b",
       "e","r",","," ","I","'","m"," ","a","l","w","a","y","s"," ","h","e","r","e"," ","t",
       "o"," ","h","e","l","p"," ","w","i","t","h"," ","y","o","u","r"," ","l","e","a","r",
       "n","i","n","g"," ","j","o","u","r","n","e","y",".">>,
     <<"T","a","k","e"," ","c","a","r","e","!"," ","C","o","m","e"," ","b","a","c","k"," ",
       "a","n","y","t","i","m","e"," ","y","o","u"," ","n","e","e","d"," ","a","c","a","d",
       "e","m","i","c"," ","a","s","s","i","s","t","a","n","c","e"," ","o","r"," ","h","a",
       "v","e"," ","q","u","e","s","t","i","o","n","s",".">>,
     <<"F","a","r","e","w","e","l","l","!"," ","G","o","o","d"," ","l","u","c","k"," ","w",
       "i","t","h"," ","y","o","u","r"," ","s","t","u","d","i","e","s",","," ","a","n","d",
       " ","d","o","n","'","t"," ","h","e","s","i","t","a","t","e"," ","t","o"," ","r","e",
       "t","u","r","n"," ","i","f"," ","y","o","u"," ","n","e","e","d"," ","h","e","l","p",
       ".">>}
HandleGoodbye(context) ==
    {Outcome(IF context.name = None THEN goodbye
             ELSE Replace(Replace(goodbye, <<"G","o","o","d","b","y","e","!">>,
                                  <<"G","o","o","d","b","y","e",","," ">> \o context.name[1] \o <<"!">>),
                          <<"S","e","e"," ","y","o","u"," ","l","a","t","e","r","!">>,
                          <<"S","e","e"," ","y","o","u"," ","l","a","t","e","r",","," ">> \o context.name[1] \o <<"!">>),
             context) : goodbye \in goodbyes}

\* _handle_emotional_support
s_I_understand_this_can_be_challenging ==
    <<"I"," ","u","n","d","e","r","s","t","a","n","d"," ","t","h","i","s"," ","c","a","n"," ",
      "b","e"," ","c","h","a","l","l","e","n","g","i","n","g","."," ","T","a","k","e"," ","a",
      " ","d","e","e","p"," ","b","r","e","a","t","h"," ","-"," ","w","e","'","l","l"," ","w",
      "o","r","k"," ","t","h","r","o","u","g","h"," ","t","h","i","s"," ","t","o","g","e","t",
      "h","e","r","."," ","W","h","a","t"," ","s","p","e","c","i","f","i","c"," ","p","a","r",
      "t"," ","i","s"," ","g","i","v","i","n","g"," ","y","o","u"," ","t","r","o","u","b","l",
      "e","?">>
s_Thats_wonderful ==
    <<"T","h","a","t","'","s"," ","w","o","n","d","e","r","f","u","l","!"," ","I","'","m"," ",
      "g","l","a","d"," ","y","o","u","'","r","e"," ","f","e","e","l","i","n","g"," ","p","o",
      "s","i","t","i","v","e","."," ","H","o","w"," ","c","a","n"," ","I"," ","h","e","l","p",
      " ","y","o","u"," ","c","o","n","t","i","n","u","e"," ","t","h","i","s"," ","g","r","e",
      "a","t"," ","m","o","m","e","n","t","u","m","?">>
s_Im_sorry_youre_feeling_this_way ==
    <<"I","'","m"," ","s","o","r","r","y"," ","y","o","u","'","r","e"," ","f","e","e","l","i",
      "n","g"," ","t","h","i","s"," ","w","a","y","."," ","S","o","m","e","t","i","m","e","s",
      " ","l","e","a","r","n","i","n","g"," ","c","a","n"," ","b","e"," ","o","v","e","r","w",
      "h","e","l","m","i","n","g",","," ","b","u","t"," ","r","e","m","e","m","b","e","r"," ",
      "t","h","a","t"," ","e","v","e","r","y"," ","e","x","p","e","r","t"," ","w","a","s"," ",
      "o","n","c","e"," ","a"," ","b","e","g","i","n","n","e","r","."," ","W","h","a","t"," ",
      "c","a","n"," ","I"," ","d","o"," ","t","o"," ","h","e","l","p","?">>
s_Im_here_to_support_you ==
    <<"I","'","m"," ","h","e","r","e"," ","t","o"," ","s","u","p","p","o","r","t"," ","y","o",
      "u"," ","t","h","r","o","u","g","h"," ","y","o","u","r"," ","l","e","a","r","n","i","n",
      "g"," ","j","o","u","r","n","e","y","."," ","W","h","a","t"," ","w","o","u","l","d"," ",
      "h","e","l","p"," ","y","o","u"," ","f","e","e","l"," ","m","o","r","e"," ","c","o","n",
      "f","i","d","e","n","t"," ","r","i","g","h","t"," ","n","o","w","?">>
HandleEmotionalSupport(user_input, context) ==
    LET HasOne(words) == \E word \in words : IsSubstr(word, Lower(user_input))
    IN  {Outcome(IF HasOne({<<"f","r","u","s","t","r","a","t","e","d">>, <<"c","o","n","f","u","s","e","d">>,
                            <<"w","o","r","r","i","e","d">>})
                 THEN s_I_understand_this_can_be_challenging
                 ELSE IF HasOne({<<"h","a","p","p","y">>, <<"e","x","c","i","t","e","d">>})
                 THEN s_Thats_wonderful
                 ELSE IF HasOne({<<"s","a","d">>, <<"a","n","g","r","y">>})
                 THEN s_Im_sorry_youre_feeling_this_way
                 ELSE s_Im_here_to_support_you,
                 context)}

\* _handle_clarification_request: conversation_history[-1].get('ai_response', '')
\* of the history as it is when the handler runs
s_Let_me_explain_that_differently ==
    <<"L","e","t"," ","m","e"," ","e","x","p","l","a","i","n"," ","t","h","a","t"," ","d","i",
      "f","f","e","r","e","n","t","l","y",":"," ">>
s_Is_there_a_specific_part ==
    <<"\n","\n","I","s"," ","t","h","e","r","e"," ","a"," ","s","p","e","c","i","f","i","c",
      " ","p","a","r","t"," ","y","o","u","'","d"," ","l","i","k","e"," ","m","e"," ","t","o",
      " ","c","l","a","r","i","f","y"," ","f","u","r","t","h","e","r","?">>
s_Id_be_happy_to_clarify ==
    <<"I","'","d"," ","b","e"," ","h","a","p","p","y"," ","t","o"," ","c","l","a","r","i","f",
      "y","!"," ","W","h","a","t"," ","s","p","e","c","i","f","i","c","a","l","l","y"," ","w",
      "o","u","l","d"," ","y","o","u"," ","l","i","k","e"," ","m","e"," ","t","o"," ","e","x",
      "p","l","a","i","n"," ","i","n"," ","m","o","r","e"," ","d","e","t","a","i","l","?">>
HandleClarificationRequest(history, context) ==
    LET last == history[Len(history)].ai_response
        last_response == IF last = None THEN << >> ELSE last[1]
    IN  {Outcome(IF history # << >>
                 THEN s_Let_me_explain_that_differently \o last_response
                        \o s_Is_there_a_specific_part
                 ELSE s_Id_be_happy_to_clarify,
                 context)}

\* _handle_encouragement
encouragements ==
    {<<"D","o","n","'","t"," ","g","i","v","e"," ","u","p","!"," ","L","e","a","r","n","i",
       "n","g"," ","t","a","k","e","s"," ","t","i","m","e"," ","a","n","d"," ","p","r","a",
       "c","t","i","c","e","."," ","E","v","e","r","y"," ","c","h","a","l","l","e","n","g",
       "e"," ","y","o","u"," ","o","v","e","r","c","o","m","e"," ","m","a","k","e","s"," ",
       "y","o","u"," ","s","t","r","o","n","g","e","r","."," ","W","h","a","t"," ","s","p",
       "e","c","i","f","i","c"," ","p","a","r","t"," ","c","a","n"," ","w","e"," ","w","o",
       "r","k"," ","o","n"," ","t","o","g","e","t","h","e","r","?">>,
     <<"I"," ","b","e","l","i","e","v","e"," ","i","n"," ","y","o","u","!"," ","S","o","m",
       "e","t","i","m","e","s"," ","c","o","n","c","e","p","t","s"," ","t","a","k","e"," ",
       "t","i","m","e"," ","t","o"," ","c","l","i","c","k","."," ","L","e","t","'","s"," ",
       "b","r","e","a","k"," ","t","h","i","s"," ","d","o","w","n"," ","i","n","t","o"," ",
       "s","m","a","l","l","e","r",","," ","m","a","n","a","g","e","a","b","l","e"," ","p",
       "i","e","c","e","s","."," ","W","h","a","t","'","s"," ","t","h","e"," ","f","i","r",
       "s","t"," ","t","h","i","n","g"," ","y","o","u","'","d"," ","l","i","k","e"," ","t",
       "o"," ","u","n","d","e","r","s","t","a","n","d","?">>,
     <<"Y","o","u","'","r","e"," ","n","o","t"," ","a","l","o","n","e"," ","i","n"," ","f",
       "i","n","d","i","n","g"," ","t","h","i","s"," ","d","i","f","f","i","c","u","l","t",
       " ","-"," ","i","t"," ","m","e","a","n","s"," ","y","o","u","'","r","e"," ","c","h",
       "a","l","l","e","n","g","i","n","g"," ","y","o","u","r","s","e","l","f","!"," ","T",
       "h","a","t","'","s"," ","h","o","w"," ","r","e","a","l"," ","l","e","a","r","n","i",
       "n","g"," ","h","a","p","p","e","n","s","."," ","H","o","w"," ","c","a","n"," ","I",
       " ","h","e","l","p"," ","m","a","k","e"," ","t","h","i","s"," ","c","l","e","a","r",
       "e","r","?">>,
     <<"R","e","m","e","m","b","e","r",","," ","e","v","e","r","y"," ","e","x","p","e","r",
       "t"," ","w","a","s"," ","o","n","c","e"," ","c","o","n","f","u","s","e","d"," ","t",
       "o","o","."," ","Y","o","u","r"," ","p","e","r","s","i","s","t","e","n","c","e"," ",
       "i","s"," ","a","d","m","i","r","a","b","l","e","!"," ","L","e","t","'","s"," ","t",
       "a","c","k","l","e"," ","t","h","i","s"," ","s","t","e","p"," ","b","y"," ","s","t",
       "e","p","."," ","W","h","a","t"," ","w","o","u","l","d"," ","h","e","l","p"," ","m",
       "o","s","t"," ","r","i","g","h","t"," ","n","o","w","?">>}
HandleEncouragement(context) == {Outcome(text, context) : text \in encouragements}

\* _handle_general_query: the input is looked up; one of four general replies
\* if "No information found" is in the answer
s_I_found_this_information ==
    <<"I"," ","f","o","u","n","d"," ","t","h","i","s"," ","i","n","f","o","r","m","a","t","i",
      "o","n",":"," ">>
s_Would_you_like_anything_further ==
    <<"\n","\n","W","o","u","l","d"," ","y","o","u"," ","l","i","k","e"," ","m","e"," ","t",
      "o"," ","e","x","p","l","a","i","n"," ","a","n","y","t","h","i","n","g"," ","f","u","r",
      "t","h","e","r","?">>
general_responses ==
    {<<"I","'","m"," ","n","o","t"," ","s","u","r","e"," ","I"," ","f","u","l","l","y"," ",
       "u","n","d","e","r","s","t","a","n","d","."," ","C","o","u","l","d"," ","y","o","u",
       " ","r","e","p","h","r","a","s","e"," ","y","o","u","r"," ","q","u","e","s","t","i",
       "o","n"," ","o","r"," ","b","e"," ","m","o","r","e"," ","s","p","e","c","i","f","i",
       "c"," ","a","b","o","u","t"," ","w","h","a","t"," ","y","o","u","'","d"," ","l","i",
       "k","e"," ","t","o"," ","k","n","o","w","?">>,
     <<"T","h","a","t","'","s"," ","a","n"," ","i","n","t","e","r","e","s","t","i","n","g",
       " ","q","u","e","s","t","i","o","n","!"," ","C","o","u","l","d"," ","y","o","u"," ",
       "p","r","o","v","i","d","e"," ","m","o","r","e"," ","d","e","t","a","i","l","s"," ",
       "s","o"," ","I"," ","c","a","n"," ","h","e","l","p"," ","y","o","u"," ","b","e","t",
       "t","e","r","?">>,
     <<"I"," ","w","a","n","t"," ","t","o"," ","m","a","k","e"," ","s","u","r","e"," ","I",
       " ","g","i","v","e"," ","y","o","u"," ","t","h","e"," ","b","e","s","t"," ","a","n",
       "s","w","e","r","."," ","C","o","u","l","d"," ","y","o","u"," ","t","e","l","l"," ",
       "m","e"," ","m","o","r","e"," ","a","b","o","u","t"," ","w","h","a","t"," ","y","o",
       "u","'","r","e"," ","l","o","o","k","i","n","g"," ","f","o","r","?">>,
     <<"I","'","m"," ","h","e","r","e"," ","t","o"," ","h","e","l","p","!"," ","C","o","u",
       "l","d"," ","y","o","u"," ","c","l","a","r","i","f","y"," ","w","h","a","t"," ","s",
       "p","e","c","i","f","i","c"," ","i","n","f","o","r","m","a","t","i","o","n"," ","o",
       "r"," ","a","s","s","i","s","t","a","n","c","e"," ","y","o","u"," ","n","e","e","d",
       "?">>}
HandleGeneralQuery(user_input, context) ==
    LET academic_response == offline_search(user_input)
    IN  IF ~IsSubstr(s_No_information_found, academic_response)
        THEN {Outcome(s_I_found_this_information \o academic_response
                        \o s_Would_you_like_anything_further, context)}
        ELSE {Outcome(text, context) : text \in general_responses}

\* _generate_response(user_input, intent): the replies the handler of the
\* intent can give, each with the user_context it leaves
GenerateResponse(user_input, intent_name, history, context) ==
    CASE intent_name = "greeting" -> HandleGreeting(context)
      [] intent_name \in {"question", "academic_query"} ->
            HandleAcademicQuestion(user_input, context)
      [] intent_name = "help_request" -> HandleHelpRequest(context)
      [] intent_name = "math_problem" -> HandleMathProblem(user_input, context)
      [] intent_name = "study_help" -> HandleStudyHelp(context)
      [] intent_name = "personal" -> HandlePersonalInfo(user_input, context)
      [] intent_name = "gratitude" -> HandleGratitude(context)
      [] intent_name = "goodbye" -> HandleGoodbye(context)
      [] intent_name = "emotional" -> HandleEmotionalSupport(user_input, context)
      [] intent_name = "clarification" -> HandleClarificationRequest(history, context)
      [] intent_name = "encouragement_needed" -> HandleEncouragement(context)
      [] OTHER -> HandleGeneralQuery(user_input, context)

\* _update_context(user_input, intent): a new topic of an academic_query is
\* noted, and the intent is counted
UpdateContext(context, intent_name) ==
    LET topic == context.current_topic
        noted == IF /\ intent_name = "academic_query"
                    /\ topic # None /\ topic[1] # << >>
                    /\ topic[1] \notin ToSet(context.topics_discussed)
                 THEN Append(context.topics_discussed, topic[1])
                 ELSE context.topics_discussed
        counted == IF intent_name \in DOMAIN context.preferences
                   THEN [context.preferences EXCEPT ![intent_name] = @ + 1]
                   ELSE [name \in DOMAIN context.preferences \cup {intent_name} |->
                            IF name = intent_name THEN 1 ELSE context.preferences[name]]
    IN  [context EXCEPT !.topics_discussed = noted, !.preferences = counted]

s_Im_here_to_help ==
    <<"I","'","m"," ","h","e","r","e"," ","t","o"," ","h","e","l","p","."," ","W","h","a","t",
      " ","w","o","u","l","d"," ","y","o","u"," ","l","i","k","e"," ","t","o"," ","k","n","o",
      "w"," ","o","r"," ","d","i","s","c","u","s","s","?">>

\* process_conversation(user_input, context=None): a blank input is answered at
\* once; any other is stripped, appended to the history, classified, answered
\* by its handler, and the answer is stored in the history entry
Converse(text) ==
    \E user_input \in {Strip(text)} :
        IF user_input = << >>
        THEN /\ intent' = None /\ handler' = Some("none")
             /\ chat_response' = Some(s_Im_here_to_help)
             /\ UNCHANGED <<conversation_history, user_context>>
        ELSE \E intent_name \in {AnalyzeIntent(user_input)} :
             \E history \in {Append(conversation_history,
                                    [user |-> user_input, context |-> None,
                                     ai_response |-> None])} :
             \E outcome \in GenerateResponse(user_input, intent_name, history, user_context) :
                 /\ intent' = Some(intent_name)
                 /\ handler' = Some(HandlerOf(intent_name))
                 /\ chat_response' = Some(outcome.response)
                 /\ conversation_history' =
                        [history EXCEPT ![Len(history)].ai_response = Some(outcome.response)]
                 /\ user_context' = UpdateContext(outcome.user_context, intent_name)

\* One call of process_conversation on a new OfflineConversationAI
ProcessConversation ==
    /\ handler = None
    /\ Converse(utterance)
    /\ UNCHANGED <<storeVars, reqVars, navVars, rankVars, utterance, modeVars, raceVars>>

Openers ==
    {<< >>,
     <<"h","e","l","l","o",","," ">>,
     <<"h","e","l","p"," ","m","e"," ">>,
     <<"T","h","a","n","k","s","!"," ">>,
     <<"I"," ","n","e","e","d"," ">>,
     <<"w","e","l","l"," ">>}
Bodies ==
    {<<"w","h","a","t"," ","i","s"," ","g","r","a","v","i","t","y">>,
     <<"d","e","f","i","n","e"," ","e","n","t","r","o","p","y">>,
     <<"s","o","l","v","e"," ","i","t">>,
     <<"q","u","i","z"," ","t","i","m","e">>,
     <<"m","y"," ","n","a","m","e"," ","i","s"," ","A","l">>,
     <<"b","y","e">>,
     <<"s","o"," ","c","o","n","f","u","s","e","d">>,
     <<"s","a","y"," ","a","g","a","i","n">>,
     <<"t","o","o"," ","h","a","r","d">>,
     <<"o","k">>,
     <<"I"," ","l","i","k","e"," ","t","e","a">>}

Utterances == {opener \o body : opener \in Openers, body \in Bodies} \cup {<<" ">>}

IntentInit ==
    /\ StoreIdle /\ ReqIdle /\ NavIdle /\ RankIdle
    /\ utterance \in Utterances
    /\ intent = None /\ handler = None
    /\ TalkIdle /\ ModeIdle /\ RaceIdle

IntentNext == ProcessConversation

IntentSpec == IntentInit /\ [][IntentNext]_vars

(***************************************************************************)
(* C9: the priority order of the intents                                    *)
(***************************************************************************)
\* The intents of the claim, in its priority order
ClaimedOrder ==
    <<"Greeting", "Question/AcademicQuery", "HelpRequest", "MathProblem", "StudyHelp",
      "PersonalInfo", "Gratitude", "Goodbye", "Emotional", "ClarificationRequest",
      "EncouragementNeeded">>

\* The intents of _analyze_intent that make up each intent of the claim
ClaimedMembers ==
    [k \in DOMAIN ClaimedOrder |->
        CASE k = 1 -> {"greeting"}
          [] k = 2 -> {"question", "academic_query"}
          [] k = 3 -> {"help_request"}
          [] k = 4 -> {"math_problem"}
          [] k = 5 -> {"study_help"}
          [] k = 6 -> {"personal"}
          [] k = 7 -> {"gratitude"}
          [] k = 8 -> {"goodbye"}
          [] k = 9 -> {"emotional"}
          [] k = 10 -> {"clarification"}
          [] OTHER -> {"encouragement_needed"}]

\* The claim's intent of an utterance: the first in ClaimedOrder with a keyword
\* occurring in the lower-cased utterance, General without one
ClaimedIntent(user_input) ==
    LET input_lower == Lower(user_input)
        matching ==
                {k \in DOMAIN ClaimedOrder :
                    \E name \in ClaimedMembers[k] :
                        \E keyword \in IntentKeywords[name] :
                            IsSubstr(keyword, input_lower)}
    IN  IF matching = {} THEN "General"
        ELSE ClaimedOrder[CHOOSE k \in matching : \A l \in matching : k <= l]

\* The claim's name for an intent of _analyze_intent
ClaimedName(intent_name) ==
    IF intent_name = "general" THEN "General"
    ELSE ClaimedOrder[CHOOSE k \in DOMAIN ClaimedOrder : intent_name \in ClaimedMembers[k]]

\* C9: the classifier returns the first intent, in the order Greeting,
\* Question/AcademicQuery, HelpRequest, MathProblem, StudyHelp, PersonalInfo,
\* Gratitude, Goodbye, Emotional, ClarificationRequest, EncouragementNeeded,
\* that has a keyword occurring in the lower-cased utterance, and General when
\* none has; so a greeting keyword wins over a question keyword, and an
\* academic-query keyword wins over a help keyword.
C9_FirstIntentInClaimedOrder ==
    intent # None => ClaimedName(intent[1]) = ClaimedIntent(Strip(utterance))

(***************************************************************************)
(* A conversation of several turns (specification TalkSpec)                 *)
(***************************************************************************)
\* The most turns of a conversation
MaxTurns == 2

\* What the student says: a question the offline data answers, one it does
\* not, a request to repeat, a greeting, a name, a goodbye, and nothing
TalkUtterances ==
    {<<"w","h","a","t"," ","i","s"," ","g","r","a","v","i","t","y">>,
     <<"d","e","f","i","n","e"," ","e","n","t","r","o","p","y">>,
     <<"s","a","y"," ","a","g","a","i","n">>,
     <<"h","e","l","l","o">>,
     <<"m","y"," ","n","a","m","e"," ","i","s"," ","a","l">>,
     <<"b","y","e">>,
     <<" ">>}

TalkInit ==
    /\ StoreIdle /\ ReqIdle /\ NavIdle /\ RankIdle /\ IntentIdle

\* chat_with_ai(message): one more turn of the global conversation_ai
Talk ==
    /\ Len(conversation_history) < MaxTurns
    /\ \E message \in TalkUtterances : utterance' = message /\ Converse(message)
    /\ UNCHANGED <<storeVars, reqVars, navVars, rankVars, modeVars, raceVars>>

TalkNext == Talk

TalkSpec == TalkInit /\ [][TalkNext]_vars

(***************************************************************************)
(* C23: the reply to a question the offline data cannot answer              *)
(***************************************************************************)
\* The offline data has an entry for the query
LookupFinds(query) ==
    \E k \in DOMAIN OfflineData :
        \/ IsSubstr(Lower(query), Lower(OfflineData[k].path[Len(OfflineData[k].path)]))
        \/ IsSubstr(Lower(query), Lower(OfflineData[k].data))

\* C23: for a Question/AcademicQuery utterance, when the lookup finds nothing
\* for the stripped query and for each of its content words, the reply is the
\* graceful "I don't have specific information ... other academic topics"
\* message and holds no lookup text; the "Great question!" framing and the
\* follow-up invite are produced only when the lookup returned a real result.
C23_GracefulReplyWithoutResult ==
    handler = Some("_handle_academic_question") =>
        LET content_words == ContentWords(Strip(utterance))
            search_terms == Join(content_words, " ")
            found == \/ LookupFinds(search_terms)
                     \/ \E k \in DOMAIN content_words : LookupFinds(content_words[k])
        IN  /\ ~found =>
                chat_response = Some(s_I_dont_have_specific_information \o search_terms
                                       \o s_in_my_offline_database)
            /\ IsSubstr(s_Great_question, chat_response[1]) => found

(***************************************************************************)
(* C30: what a clarification repeats                                        *)
(***************************************************************************)
\* C30: when process_conversation handles an utterance classified as
\* clarification after at least one earlier completed turn, the reply embeds
\* the assistant's response of the previous turn: the text after "Let me
\* explain that differently:" is the ai_response of the preceding history
\* entry, and is not empty.
C30_ClarificationRepeatsLastResponse ==
    \A k \in 2..Len(conversation_history) :
        AnalyzeIntent(conversation_history[k].user) = "clarification" =>
            /\ conversation_history[k - 1].ai_response # None
            /\ conversation_history[k - 1].ai_response[1] # << >>
            /\ conversation_history[k].ai_response =
                  Some(s_Let_me_explain_that_differently
                         \o conversation_history[k - 1].ai_response[1]
                         \o s_Is_there_a_specific_part)


(***************************************************************************)
(* The mode commands of process_command (specification CommandSpec)         *)
(***************************************************************************)
\* The words one of which every desktop-control command holds: without one,
\* process_desktop_command returns (False, ..., 'no_action')
DesktopWords ==
    {<<"o","p","e","n">>,
     <<"s","t","a","r","t">>,
     <<"l","a","u","n","c","h">>,
     <<"r","u","n">>,
     <<"g","o"," ","t","o">>,
     <<"n","a","v","i","g","a","t","e"," ","t","o">>,
     <<"s","h","o","w">>,
     <<"e","n","a","b","l","e"," ","n","a","r","r","a","t","o","r">>,
     <<"s","c","r","e","e","n"," ","r","e","a","d","e","r"," ","o","n">>,
     <<"e","n","a","b","l","e"," ","z","o","o","m">>,
     <<"m","a","g","n","i","f","y"," ","s","c","r","e","e","n">>,
     <<"v","i","r","t","u","a","l"," ","k","e","y","b","o","a","r","d">>,
     <<"o","n"," ","s","c","r","e","e","n"," ","k","e","y","b","o","a","r","d">>,
     <<"h","i","g","h"," ","c","o","n","t","r","a","s","t">>,
     <<"c","o","n","t","r","a","s","t"," ","m","o","d","e">>}

\* The commands the first branch of the online chain takes, as a whole
HelpCommands ==
    {<<"h","e","l","p">>,
     <<"f","e","a","t","u","r","e","s">>,
     <<"c","o","m","m","a","n","d","s">>,
     <<"w","h","a","t"," ","c","a","n"," ","y","o","u"," ","d","o">>,
     <<"m","e","n","u">>}

\* The words of the branches of the online chain that come before the mode
\* branches; a command holding one of them is taken by that branch
EarlierBranchWords ==
    {<<"o","p","e","n">>,
     <<"s","t","a","r","t">>,
     <<"l","a","u","n","c","h">>,
     <<"r","u","n">>,
     <<"h","e","l","l","o">>,
     <<"h","i">>,
     <<"h","e","y">>,
     <<"g","o","o","d"," ","m","o","r","n","i","n","g">>,
     <<"g","o","o","d"," ","a","f","t","e","r","n","o","o","n">>,
     <<"c","o","u","n","s","e","l">>,
     <<"a","d","v","i","c","e">>,
     <<"g","u","i","d","a","n","c","e">>,
     <<"t","u","t","o","r">>,
     <<"q","u","e","s","t","i","o","n">>,
     <<"e","x","p","l","a","i","n">>,
     <<"d","e","f","i","n","e">>,
     <<"w","h","a","t"," ","i","s">>,
     <<"w","h","o"," ","i","s">>,
     <<"h","o","w"," ","d","o">>,
     <<"w","h","e","n"," ","i","s">>,
     <<"w","h","y">>,
     <<"q","u","i","z">>,
     <<"m","a","t","h">>,
     <<"s","o","l","v","e">>,
     <<"f","o","r","m","u","l","a">>,
     <<"b","r","a","i","l","l","e">>,
     <<"p","l","a","n","n","e","r">>,
     <<"r","e","m","i","n","d","e","r">>,
     <<"e","v","e","n","t">>,
     <<"s","e","a","r","c","h">>,
     <<"m","u","l","t","i"," ","m","o","d","a","l">>,
     <<"m","u","l","t","i","m","o","d","a","l">>,
     <<"g","o","o","g","l","e">>,
     <<"y","o","u","t","u","b","e">>,
     <<"s","c","h","o","l","a","r">>,
     <<"a","c","a","d","e","m","i","c">>,
     <<"p","a","p","e","r">>}

s_offline ==
    <<"o","f","f","l","i","n","e">>

s_online ==
    <<"o","n","l","i","n","e">>

s_Offline_mode_enabled ==
    <<"O","f","f","l","i","n","e"," ","m","o","d","e"," ","e","n","a","b","l","e","d","."," ",
      "I","'","l","l"," ","n","o","w"," ","u","s","e"," ","m","y"," ","o","f","f","l","i","n",
      "e"," ","k","n","o","w","l","e","d","g","e"," ","b","a","s","e"," ","f","o","r"," ","a",
      "l","l"," ","r","e","s","p","o","n","s","e","s",".">>

s_Online_mode_enabled_with_access ==
    <<"O","n","l","i","n","e"," ","m","o","d","e"," ","e","n","a","b","l","e","d","."," ","I",
      " ","n","o","w"," ","h","a","v","e"," ","a","c","c","e","s","s"," ","t","o"," ","w","e",
      "b","-","b","a","s","e","d"," ","r","e","s","o","u","r","c","e","s",".">>

s_Online_mode_enabled ==
    <<"O","n","l","i","n","e"," ","m","o","d","e"," ","e","n","a","b","l","e","d",".">>

\* What process_desktop_command can return for a command: "no_action" only,
\* unless the command holds a desktop word; then the desktop may also have
\* acted ("done") or failed to act ("failed")
DesktopOutcomes(command_lower) ==
    IF \E w \in DesktopWords : IsSubstr(w, command_lower)
    THEN {"no_action", "done", "failed"}
    ELSE {"no_action"}

\* A branch of the online chain before the mode branches takes the command
TakenByEarlierBranch(command_lower) ==
    \/ command_lower \in HelpCommands
    \/ \E w \in EarlierBranchWords : IsSubstr(w, command_lower)

\* The online branch chain of process_command, for a command that is not a
\* desktop command. The reply of the branches other than the mode branches
\* is not modelled: they leave the mode alone.
OnlineChain(command_lower) ==
    IF TakenByEarlierBranch(command_lower)
    THEN /\ command_response' = None
         /\ UNCHANGED <<is_offline_mode, assistant_mode>>
    ELSE IF IsSubstr(s_offline, command_lower)
    THEN /\ assistant_mode' = "offline"
         /\ is_offline_mode' = TRUE
         /\ command_response' = Some(s_Offline_mode_enabled)
    ELSE IF IsSubstr(s_online, command_lower)
    THEN /\ assistant_mode' = "online"
         /\ is_offline_mode' = FALSE
         /\ command_response' =
                IF assistant_mode = "offline"
                THEN Some(s_Online_mode_enabled_with_access)
                ELSE Some(s_Online_mode_enabled)
    ELSE /\ command_response' = None
         /\ UNCHANGED <<is_offline_mode, assistant_mode>>

\* process_command(command) once the desktop has declined the command: in
\* offline mode the command goes to chat_with_ai and to nothing else
HandOver(command) ==
    IF is_offline_mode
    THEN /\ Len(conversation_history) < MaxTurns
         /\ Converse(command)
         /\ command_response' = chat_response'
         /\ UNCHANGED <<is_offline_mode, assistant_mode>>
    ELSE /\ OnlineChain(Lower(command))
         /\ UNCHANGED <<intent, handler, talkVars>>

\* What the student types or says
Commands ==
    {<<"S","w","i","t","c","h"," ","t","o"," ","o","n","l","i","n","e"," ","m","o","d","e">>,
     <<"S","w","i","t","c","h"," ","t","o"," ","o","f","f","l","i","n","e"," ","m","o","d",
       "e">>,
     <<"g","o"," ","o","n","l","i","n","e">>,
     <<"h","e","l","l","o">>,
     <<"s","h","o","w"," ","m","e"," ","t","h","e"," ","o","n","l","i","n","e"," ","m","o",
       "d","e">>,
     <<"s","a","y"," ","a","g","a","i","n">>}

s_Switch_to_online_mode ==
    <<"S","w","i","t","c","h"," ","t","o"," ","o","n","l","i","n","e"," ","m","o","d","e">>

\* ModernAIVIGUI.process_command(command)
ProcessCommand ==
    /\ \E command \in Commands :
         /\ utterance' = command
         /\ \E outcome \in DesktopOutcomes(Lower(command)) :
               IF outcome = "no_action"
               THEN HandOver(command)
               ELSE /\ command_response' = None
                    /\ UNCHANGED <<is_offline_mode, assistant_mode>>
                    /\ UNCHANGED <<intent, handler, talkVars>>
    /\ UNCHANGED <<storeVars, reqVars, navVars, rankVars, raceVars>>

\* ModernAIVIGUI.toggle_mode(): the mode button
ToggleMode ==
    /\ is_offline_mode' = ~is_offline_mode
    /\ assistant_mode' = IF is_offline_mode THEN "online" ELSE "offline"
    /\ UNCHANGED <<command_response, utterance, intent, handler, talkVars>>
    /\ UNCHANGED <<storeVars, reqVars, navVars, rankVars, raceVars>>

\* The GUI starts in offline mode when the file offline_mode.flag exists;
\* the mode of offline_academic is what assistant_mode.flag holds
CommandInit ==
    /\ StoreIdle /\ ReqIdle /\ NavIdle /\ RankIdle
    /\ utterance = << >> /\ intent = None /\ handler = None /\ TalkIdle /\ RaceIdle
    /\ is_offline_mode \in BOOLEAN
    /\ assistant_mode \in {"offline", "online"}
    /\ command_response = None

CommandNext == ProcessCommand \/ ToggleMode

CommandSpec == CommandInit /\ [][CommandNext]_vars

(***************************************************************************)
(* C25: the command 'Switch to online mode'                                 *)
(***************************************************************************)
\* C25: after process_command has handled 'Switch to online mode', whatever
\* the mode was before, the assistant is not in offline mode.
C25_SwitchToOnlineLeavesOffline ==
    [][(ProcessCommand /\ utterance' = s_Switch_to_online_mode) => ~is_offline_mode']_vars


(***************************************************************************)
(* Threads in get_search_cache, cache_online_search and cleanup_old_data    *)
(* at the same time (specification RaceSpec)                                *)
(*                                                                         *)
(* Each reading and each writing of search_cache.csv is one step.  Only     *)
(* cache_online_search runs under _lock; get_search_cache, its              *)
(* _update_cache_access and cleanup_old_data do not take it.                *)
(***************************************************************************)
RaceThreads == {1, 2}

\* The most cache calls of one behaviour
MaxCalls == 4

\* The query every call is about, and the days cleanup_old_data is given
RaceQuery == SweepQuery(1)
RaceDays == 30

IdleThread == [pc |-> "idle", rows |-> << >>, cached |-> FALSE]

CallsStarted ==
    calls.puts + calls.hits + calls.misses + calls.sweeps
        + Cardinality({t \in RaceThreads : threads[t].pc # "idle"})

raceOther ==
    <<csv_rows, db_rows, clock, pc, add_call, put_args, put_ret, reqVars, navVars,
      rankVars, utterance, intent, handler, talkVars, modeVars>>

RaceInit ==
    /\ csv_rows = << >> /\ db_rows = << >> /\ cache_rows = << >>
    /\ clock = SweepNow
    /\ lock_owner = None /\ pc = "idle" /\ add_call = None
    /\ put_args = None /\ put_ret = None
    /\ ReqIdle /\ NavIdle /\ RankIdle
    /\ utterance = << >> /\ intent = None /\ handler = None /\ TalkIdle /\ ModeIdle
    /\ threads = [t \in RaceThreads |-> IdleThread]
    /\ calls = [puts |-> 0, hits |-> 0, misses |-> 0, sweeps |-> 0]

\* get_search_cache lines 326-331: the file is read for a row with the hash;
\* without one the call returns None
GetLookup(t) ==
    /\ threads[t].pc = "idle"
    /\ CallsStarted < MaxCalls
    /\ IF GetSearchCache(cache_rows, RaceQuery).hit = None
       THEN /\ calls' = [calls EXCEPT !.misses = @ + 1]
            /\ UNCHANGED threads
       ELSE /\ threads' = [threads EXCEPT ![t].pc = "update_cache_access"]
            /\ UNCHANGED calls
    /\ UNCHANGED <<cache_rows, lock_owner, raceOther>>

\* _update_cache_access lines 351-356: the file is read again and the count of
\* the rows with the hash is raised in the rows read
AccessRead(t) ==
    /\ threads[t].pc = "update_cache_access"
    /\ threads' = [threads EXCEPT ![t].pc = "write_cache_access",
                                  ![t].rows = GetSearchCache(cache_rows, RaceQuery).cache]
    /\ UNCHANGED <<cache_rows, lock_owner, calls, raceOther>>

\* _update_cache_access lines 358-361: the rows read are written over the
\* file; get_search_cache returns the row it found
AccessWrite(t) ==
    /\ threads[t].pc = "write_cache_access"
    /\ cache_rows' = threads[t].rows
    /\ threads' = [threads EXCEPT ![t] = IdleThread]
    /\ calls' = [calls EXCEPT !.hits = @ + 1]
    /\ UNCHANGED <<lock_owner, raceOther>>

\* cache_online_search line 258: _lock is taken
PutLock(t) ==
    /\ threads[t].pc = "idle"
    /\ CallsStarted < MaxCalls
    /\ lock_owner = None
    /\ lock_owner' = Some("cache_online_search")
    /\ threads' = [threads EXCEPT ![t].pc = "cache_online_search"]
    /\ UNCHANGED <<cache_rows, calls, raceOther>>

\* cache_online_search lines 266-273: the file is read; a row with the hash
\* gets its count raised and a new time in the rows read
PutRead(t) ==
    /\ threads[t].pc = "cache_online_search"
    /\ threads' =
         [threads EXCEPT
            ![t].pc = "write_cache",
            ![t].cached = GetSearchCache(cache_rows, RaceQuery).hit # None,
            ![t].rows = CacheAfterPut(cache_rows, RaceQuery, ShortResponse, s_google, clock)]
    /\ UNCHANGED <<cache_rows, lock_owner, calls, raceOther>>

\* cache_online_search lines 275-285 and the end of the call: a new row is
\* appended to the file as it is now, or the rows read are written over it;
\* the short response is not promoted; _lock is released
PutWrite(t) ==
    /\ threads[t].pc = "write_cache"
    /\ cache_rows' =
         IF threads[t].cached THEN threads[t].rows
         ELSE Append(cache_rows,
                     CacheRow(QueryHash(RaceQuery), RaceQuery, ShortResponse, s_google,
                              clock, 1))
    /\ lock_owner' = None
    /\ threads' = [threads EXCEPT ![t] = IdleThread]
    /\ calls' = [calls EXCEPT !.puts = @ + 1]
    /\ UNCHANGED raceOther

\* cleanup_old_data lines 443-450: the file is read and the rows to keep chosen
CleanupRead(t) ==
    /\ threads[t].pc = "idle"
    /\ CallsStarted < MaxCalls
    /\ threads' =
         [threads EXCEPT
            ![t].pc = "cleanup_old_data",
            ![t].rows =
                SelectRows(cache_rows,
                           {i \in DOMAIN cache_rows :
                               KeptBySweep(cache_rows[i], CutoffDate(clock, RaceDays))})]
    /\ UNCHANGED <<cache_rows, lock_owner, calls, raceOther>>

\* cleanup_old_data lines 452-455: the rows kept are written over the file
CleanupWrite(t) ==
    /\ threads[t].pc = "cleanup_old_data"
    /\ cache_rows' = threads[t].rows
    /\ threads' = [threads EXCEPT ![t] = IdleThread]
    /\ calls' = [calls EXCEPT !.sweeps = @ + 1]
    /\ UNCHANGED <<lock_owner, raceOther>>

RaceNext ==
    \E t \in RaceThreads :
        \/ GetLookup(t) \/ AccessRead(t) \/ AccessWrite(t)
        \/ PutLock(t) \/ PutRead(t) \/ PutWrite(t)
        \/ CleanupRead(t) \/ CleanupWrite(t)

RaceSpec == RaceInit /\ [][RaceNext]_vars

(***************************************************************************)
(* C26: no update of the cache is lost                                      *)
(***************************************************************************)
\* Every call has returned
NoCallRunning == \A t \in DOMAIN threads : threads[t].pc = "idle"

\* C26: whatever the interleaving of the calls of different threads, once all
\* have returned the cache holds one row for the query, and its access_count
\* is the number of cache_online_search calls plus the number of
\* get_search_cache hits (1 for the first put, one more for each later put and
\* each hit).
C26_NoCacheUpdateLost ==
    (NoCallRunning /\ calls.puts > 0) =>
        /\ Len(cache_rows) = 1
        /\ cache_rows[1].access_count = calls.puts + calls.hits

====
